---- MODULE Spec2Model ----
(***************************************************************************)
(* Engagement & progression engine of the meme generator: the mock store   *)
(* (utils/supabase_client.py), the gamification layer                      *)
(* (utils/gamification.py) and the handlers of app.py that drive them.     *)
(*                                                                         *)
(* Records keep the fields the engine reads.  The display-only fields of   *)
(* a user (username, password hash, created_at) and of a meme (top_text,   *)
(* bottom_text, image_data, created_at) are never read by the operations   *)
(* modelled here and are left out of the records.                          *)
(***************************************************************************)
EXTENDS Integers, Sequences, FiniteSets, TLC

VARIABLES
    mock_users,      \* st.session_state.mock_users
    mock_memes,      \* st.session_state.mock_memes
    mock_comments,   \* st.session_state.mock_comments
    mock_likes,      \* st.session_state.mock_likes
    last,            \* observation of the last call: operation, arguments, result
    milestone_log,   \* history: which (user, milestone) bonuses were paid once / again
    calls_left,      \* award_points calls still allowed (SpecAward, SpecDelta)
    race,            \* the two interleaved award_points calls of SpecRace
    badge_eval,      \* the get_user_badges evaluations of SpecBadges
    calc             \* the last evaluation of a pure function (SpecCalc, SpecTrend, SpecSort)

vars == <<mock_users, mock_memes, mock_comments, mock_likes, last,
          milestone_log, calls_left, race, badge_eval, calc>>

store == <<mock_users, mock_memes, mock_comments, mock_likes>>

-----------------------------------------------------------------------------
(* Bounds *)

MaxUsers == 2        \* e-mail addresses available to register_user
MaxRecords == 2      \* records in mock_memes, mock_likes and mock_comments together (Spec)
MaxPoints == 10      \* points of all users together (Spec)
MaxLikes == 1        \* length of mock_likes (SpecAward)
AwardCalls == 2      \* award_points calls in a behaviour of SpecAward
DeltaCalls == 1      \* award_points calls in a behaviour of SpecDelta

Emails == 1..MaxUsers
UserIds == 1..MaxUsers
MemeIds == 1..MaxRecords

\* a bonus_multiplier is a decimal literal, written in hundredths: 116 is 1.16
Hundred == 100
Multipliers == {-25, 0, 50, 60, 100, 116, 150}
DefaultMultiplier == 100

-----------------------------------------------------------------------------
(* Helpers *)

None == [none |-> TRUE]
NoUser == 0          \* a user id that is None (falsy, as None is in the callers' tests)

Min(S) == CHOOSE x \in S : \A y \in S : x <= y

\* index of the first element of seq satisfying P, 0 when there is none
FirstIndex(seq, P(_)) ==
    LET S == {i \in 1..Len(seq) : P(seq[i])}
    IN IF S = {} THEN 0 ELSE Min(S)

RemoveAt(seq, i) == SubSeq(seq, 1, i - 1) \o SubSeq(seq, i + 1, Len(seq))

\* sum of seq[lo..hi], by halves to keep the evaluation shallow
RECURSIVE SumRange(_, _, _)
SumRange(seq, lo, hi) ==
    IF lo > hi THEN 0
    ELSE IF lo = hi THEN seq[lo]
    ELSE LET mid == (lo + hi) \div 2
         IN SumRange(seq, lo, mid) + SumRange(seq, mid + 1, hi)

SumSeq(seq) == SumRange(seq, 1, Len(seq))


-----------------------------------------------------------------------------
(* Python floats are IEEE-754 doubles: 53 significant bits, round to nearest,*)
(* ties to even.  A double is [mant, exp] with value mant * 2^exp; mant is a *)
(* natural number kept as a sequence of limbs, least significant first,      *)
(* without leading zero limbs (<<>> is 0).                                   *)

LimbBits == 13
LimbBase == 8192
MantBits == 53
ScaleBits == 60

RECURSIVE Pow2(_)
Pow2(n) == IF n = 0 THEN 1 ELSE 2 * Pow2(n - 1)

RECURSIVE BitLen(_)
BitLen(n) == IF n = 0 THEN 0 ELSE 1 + BitLen(n \div 2)

RECURSIVE BigNorm(_)
BigNorm(x) ==
    IF x = <<>> THEN <<>>
    ELSE IF x[Len(x)] = 0 THEN BigNorm(SubSeq(x, 1, Len(x) - 1))
    ELSE x

RECURSIVE BigFromInt(_)
BigFromInt(n) ==
    IF n = 0 THEN <<>> ELSE <<n % LimbBase>> \o BigFromInt(n \div LimbBase)

RECURSIVE BigToInt(_)
BigToInt(x) == IF x = <<>> THEN 0 ELSE x[1] + LimbBase * BigToInt(Tail(x))

\* x * n + c for small n and c
RECURSIVE BigMulAdd(_, _, _)
BigMulAdd(x, n, c) ==
    IF x = <<>> THEN BigFromInt(c)
    ELSE LET t == x[1] * n + c
         IN <<t % LimbBase>> \o BigMulAdd(Tail(x), n, t \div LimbBase)

BigMul(x, n) == BigNorm(BigMulAdd(x, n, 0))

\* quotient and remainder of x by a small n, from the most significant limb down
RECURSIVE BigDivRem(_, _)
BigDivRem(x, n) ==
    IF x = <<>> THEN [quot |-> <<>>, rem |-> 0]
    ELSE LET high == BigDivRem(Tail(x), n)
             t == high.rem * LimbBase + x[1]
         IN [quot |-> <<t \div n>> \o high.quot, rem |-> t % n]

BigBitLen(x) ==
    IF x = <<>> THEN 0 ELSE LimbBits * (Len(x) - 1) + BitLen(x[Len(x)])

\* x * 2^s
RECURSIVE BigShiftLeft(_, _)
BigShiftLeft(x, s) ==
    IF s = 0 \/ x = <<>> THEN x
    ELSE IF s >= LimbBits THEN <<0>> \o BigShiftLeft(x, s - LimbBits)
    ELSE BigMul(x, Pow2(s))

\* floor(x / 2^s)
RECURSIVE BigShiftRight(_, _)
BigShiftRight(x, s) ==
    IF s = 0 \/ x = <<>> THEN x
    ELSE LET c == IF s > LimbBits THEN LimbBits ELSE s
         IN BigShiftRight(BigNorm(BigDivRem(x, Pow2(c)).quot), s - c)

\* x / n rounded to the nearest integer, ties to even
BigRoundDiv(x, n) ==
    LET d == BigDivRem(x, n)
        quot == BigNorm(d.quot)
        odd == quot # <<>> /\ quot[1] % 2 = 1
    IN IF 2 * d.rem > n \/ (2 * d.rem = n /\ odd)
       THEN BigNorm(BigMulAdd(quot, 1, 1))
       ELSE quot

\* the double nearest to the decimal literal hundredths/100 (hundredths >= 0)
to_double(hundredths) ==
    IF hundredths = 0 THEN [mant |-> <<>>, exp |-> 0]
    ELSE LET scaled == BigMul(BigShiftLeft(<<1>>, ScaleBits), hundredths)
             floor == BigNorm(BigDivRem(scaled, Hundred).quot)
             s == BigBitLen(floor) - MantBits
         IN [mant |-> BigRoundDiv(scaled, Hundred * Pow2(s)), exp |-> s - ScaleBits]

\* int * float: the int converts exactly, the product is rounded to a double
float_mul(n, d) ==
    LET product == BigMul(d.mant, n)
        over == BigBitLen(product) - MantBits
        s == IF over > 0 THEN over ELSE 0
    IN [mant |-> BigRoundDiv(product, Pow2(s)), exp |-> d.exp + s]

\* int(float) for a float >= 0: the integer part
float_int(d) ==
    IF d.exp >= 0 THEN BigToInt(BigShiftLeft(d.mant, d.exp))
    ELSE BigToInt(BigShiftRight(d.mant, -d.exp))

\* int / int (n >= 0, d > 0): the double nearest to the quotient
float_div(n, d) ==
    IF n = 0 THEN [mant |-> <<>>, exp |-> 0]
    ELSE LET k == MantBits + 1 + BitLen(d) - BitLen(n)
             scaled == BigShiftLeft(BigFromInt(n), k)
             floor == BigNorm(BigDivRem(scaled, d).quot)
             s == BigBitLen(floor) - MantBits
         IN [mant |-> BigRoundDiv(scaled, d * Pow2(s)), exp |-> s - k]

float_of_int(n) == [mant |-> BigFromInt(n), exp |-> 0]

\* x < y for naturals in limbs
RECURSIVE BigLessFrom(_, _, _)
BigLessFrom(x, y, i) ==
    IF i = 0 THEN FALSE
    ELSE IF x[i] # y[i] THEN x[i] < y[i]
    ELSE BigLessFrom(x, y, i - 1)

BigLess(x, y) ==
    IF Len(x) # Len(y) THEN Len(x) < Len(y) ELSE BigLessFrom(x, y, Len(x))

\* the mantissas of a and b over their common (smaller) exponent
float_aligned(a, b) ==
    LET e == IF a.exp < b.exp THEN a.exp ELSE b.exp
    IN [a |-> BigShiftLeft(a.mant, a.exp - e), b |-> BigShiftLeft(b.mant, b.exp - e)]

\* a < b and a == b for floats >= 0
float_less(a, b) == LET m == float_aligned(a, b) IN BigLess(m.a, m.b)

float_equal(a, b) == LET m == float_aligned(a, b) IN m.a = m.b

\* x + y + c
RECURSIVE BigAddFrom(_, _, _)
BigAddFrom(x, y, c) ==
    IF x = <<>> /\ y = <<>> THEN BigFromInt(c)
    ELSE LET t == (IF x = <<>> THEN 0 ELSE x[1]) + (IF y = <<>> THEN 0 ELSE y[1]) + c
         IN <<t % LimbBase>> \o BigAddFrom(IF x = <<>> THEN x ELSE Tail(x),
                                           IF y = <<>> THEN y ELSE Tail(y),
                                           t \div LimbBase)

BigAdd(x, y) == BigNorm(BigAddFrom(x, y, 0))

\* x - y - b for x >= y + b
RECURSIVE BigSubFrom(_, _, _)
BigSubFrom(x, y, b) ==
    IF x = <<>> THEN <<>>
    ELSE LET t == x[1] - (IF y = <<>> THEN 0 ELSE y[1]) - b
         IN <<t % LimbBase>> \o BigSubFrom(Tail(x), IF y = <<>> THEN y ELSE Tail(y),
                                           IF t < 0 THEN 1 ELSE 0)

BigSub(x, y) == BigNorm(BigSubFrom(x, y, 0))

\* the greatest digit d in lo..hi-1 with y * d <= x, given y * lo <= x < y * hi
RECURSIVE BigDigit(_, _, _, _)
BigDigit(x, y, lo, hi) ==
    IF hi - lo = 1 THEN lo
    ELSE LET mid == (lo + hi) \div 2
         IN IF BigLess(x, BigMul(y, mid)) THEN BigDigit(x, y, lo, mid)
            ELSE BigDigit(x, y, mid, hi)

\* quotient and remainder of x by y # 0, limb by limb from the top
RECURSIVE BigLongDiv(_, _)
BigLongDiv(x, y) ==
    IF x = <<>> THEN [quot |-> <<>>, rem |-> <<>>]
    ELSE LET high == BigLongDiv(Tail(x), y)
             r == BigNorm(<<x[1]>> \o high.rem)
             digit == BigDigit(r, y, 0, LimbBase)
         IN IF high.rem = <<>> /\ x[1] = 0 THEN [quot |-> <<0>> \o high.quot, rem |-> <<>>]
            ELSE [quot |-> <<digit>> \o high.quot, rem |-> BigSub(r, BigMul(y, digit))]

\* x / 2^s (s > 0) rounded to nearest, ties to even; sticky: x stands for a value
\* slightly above it
BigRoundShift(x, s, sticky) ==
    LET t == BigShiftRight(x, s - 1)
        half == t # <<>> /\ t[1] % 2 = 1
        quot == BigShiftRight(t, 1)
        lost == sticky \/ BigShiftLeft(t, s - 1) # x
        odd == quot # <<>> /\ quot[1] % 2 = 1
    IN IF half /\ (lost \/ odd) THEN BigNorm(BigMulAdd(quot, 1, 1)) ELSE quot

\* the double nearest to m * 2^e
float_round(m, e, sticky) ==
    LET over == BigBitLen(m) - MantBits
    IN IF over <= 0 THEN [mant |-> m, exp |-> e]
       ELSE [mant |-> BigRoundShift(m, over, sticky), exp |-> e + over]

\* a + b for floats >= 0
float_add(a, b) ==
    IF a.mant = <<>> THEN b
    ELSE IF b.mant = <<>> THEN a
    ELSE LET m == float_aligned(a, b)
         IN float_round(BigAdd(m.a, m.b), IF a.exp < b.exp THEN a.exp ELSE b.exp, FALSE)

\* a / b for floats a >= 0 and b >= 0; None for a ZeroDivisionError
float_divide(a, b) ==
    IF b.mant = <<>> THEN None
    ELSE IF a.mant = <<>> THEN [mant |-> <<>>, exp |-> 0]
    ELSE LET k == MantBits + 2 + BigBitLen(b.mant) - BigBitLen(a.mant)
             d == BigLongDiv(BigShiftLeft(a.mant, k), b.mant)
         IN float_round(BigNorm(d.quot), a.exp - b.exp - k, d.rem # <<>>)


-----------------------------------------------------------------------------
(* Gamification tables *)

point_system ==
    [create_meme |-> 10, get_like |-> 5, comment |-> 2, daily_login |-> 1,
     first_meme |-> 20, viral_meme |-> 50, popular_creator |-> 100,
     prolific_creator |-> 75, social_butterfly |-> 25, trendsetter |-> 30]

Kinds == DOMAIN point_system \cup {"nonexistent_kind"}

\* inputs of the direct award_points calls of Spec and SpecAward
SpecKinds == {"create_meme", "nonexistent_kind"}
SpecMultipliers == {0, 100}
ProbeKinds == {"get_like", "daily_login"}

milestones ==
    << [meme_count |-> 5,   achievement |-> "first_five_memes", bonus_points |-> 25],
       [meme_count |-> 10,  achievement |-> "first_ten_memes",  bonus_points |-> 50],
       [meme_count |-> 25,  achievement |-> "quarter_century",  bonus_points |-> 75],
       [meme_count |-> 50,  achievement |-> "half_century",     bonus_points |-> 100],
       [meme_count |-> 100, achievement |-> "century_club",     bonus_points |-> 200] >>

-----------------------------------------------------------------------------
(* SupabaseClient *)

\* _calculate_rank that grants 'Rookie Memer' only above 50 points
calculate_rank_above(points) ==
    IF points >= 1000 THEN "Meme Legend"
    ELSE IF points >= 500 THEN "Pro Memer"
    ELSE IF points >= 200 THEN "Meme Enthusiast"
    ELSE IF points > 50 THEN "Rookie Memer"
    ELSE "Newbie"

calculate_rank(points) ==
    IF points >= 1000 THEN "Meme Legend"
    ELSE IF points >= 500 THEN "Pro Memer"
    ELSE IF points >= 200 THEN "Meme Enthusiast"
    ELSE IF points >= 50 THEN "Rookie Memer"
    ELSE "Newbie"

get_user_by_email(users, email) ==
    LET i == FirstIndex(users, LAMBDA u : u.email = email)
    IN IF i = 0 THEN None ELSE users[i]

get_user_by_id(users, user_id) ==
    LET i == FirstIndex(users, LAMBDA u : u.id = user_id)
    IN IF i = 0 THEN None ELSE users[i]

\* returns the new user table and the registered user (None when the e-mail exists)
register_user(users, email) ==
    IF get_user_by_email(users, email) # None
    THEN [users |-> users, ret |-> None]
    ELSE LET user == [id |-> Len(users) + 1, email |-> email, points |-> 0,
                      rank |-> "Newbie", memes_count |-> 0, total_likes |-> 0]
         IN [users |-> Append(users, user), ret |-> user]

get_user_stats(users, memes, user_id) ==
    LET user == get_user_by_id(users, user_id)
        user_memes == SelectSeq(memes, LAMBDA m : m.user_id = user_id)
    IN IF user = None THEN None
       ELSE [id |-> user.id, email |-> user.email, points |-> user.points,
             rank |-> user.rank, memes_count |-> Len(user_memes),
             total_likes |-> SumSeq([i \in 1..Len(user_memes) |-> user_memes[i].likes_count])]

update_user_points(users, user_id, points) ==
    LET i == FirstIndex(users, LAMBDA u : u.id = user_id)
    IN IF i = 0 THEN [users |-> users, ret |-> FALSE]
       ELSE LET p == users[i].points + points
            IN [users |-> [users EXCEPT ![i].points = p, ![i].rank = calculate_rank(p)],
                ret |-> TRUE]

save_meme(users, memes, user_id) ==
    LET meme == [id |-> Len(memes) + 1, user_id |-> user_id, likes_count |-> 0]
        i == FirstIndex(users, LAMBDA u : u.id = user_id)
    IN [memes |-> Append(memes, meme),
        users |-> IF i = 0 THEN users
                  ELSE [users EXCEPT ![i].memes_count = users[i].memes_count + 1],
        ret |-> TRUE]

\* delete_meme that also takes back the points awarded for creating the meme
delete_meme_revoking(users, memes, meme_id, user_id) ==
    LET i == FirstIndex(memes, LAMBDA m : m.id = meme_id /\ m.user_id = user_id)
        j == FirstIndex(users, LAMBDA u : u.id = user_id)
    IN IF i = 0 THEN [memes |-> memes, users |-> users, ret |-> FALSE]
       ELSE [memes |-> RemoveAt(memes, i),
             users |-> IF j = 0 THEN users
                       ELSE [users EXCEPT ![j].memes_count =
                                IF users[j].memes_count - 1 > 0
                                THEN users[j].memes_count - 1 ELSE 0,
                                          ![j].points = users[j].points - 10],
             ret |-> TRUE]

\* delete_meme that matches the id alone
delete_meme_any_owner(users, memes, meme_id, user_id) ==
    LET i == FirstIndex(memes, LAMBDA m : m.id = meme_id)
        j == FirstIndex(users, LAMBDA u : u.id = user_id)
    IN IF i = 0 THEN [memes |-> memes, users |-> users, ret |-> FALSE]
       ELSE [memes |-> RemoveAt(memes, i),
             users |-> IF j = 0 THEN users
                       ELSE [users EXCEPT ![j].memes_count =
                                IF users[j].memes_count - 1 > 0
                                THEN users[j].memes_count - 1 ELSE 0],
             ret |-> TRUE]

delete_meme(users, memes, meme_id, user_id) ==
    LET i == FirstIndex(memes, LAMBDA m : m.id = meme_id /\ m.user_id = user_id)
        j == FirstIndex(users, LAMBDA u : u.id = user_id)
    IN IF i = 0 THEN [memes |-> memes, users |-> users, ret |-> FALSE]
       ELSE [memes |-> RemoveAt(memes, i),
             users |-> IF j = 0 THEN users
                       ELSE [users EXCEPT ![j].memes_count =
                                IF users[j].memes_count - 1 > 0
                                THEN users[j].memes_count - 1 ELSE 0],
             ret |-> TRUE]

like_meme(memes, likes, meme_id, user_id) ==
    IF \E k \in 1..Len(likes) : likes[k].meme_id = meme_id /\ likes[k].user_id = user_id
    THEN [memes |-> memes, likes |-> likes, ret |-> FALSE]
    ELSE LET like == [id |-> Len(likes) + 1, meme_id |-> meme_id, user_id |-> user_id]
             i == FirstIndex(memes, LAMBDA m : m.id = meme_id)
         IN [memes |-> IF i = 0 THEN memes
                       ELSE [memes EXCEPT ![i].likes_count = memes[i].likes_count + 1],
             likes |-> Append(likes, like),
             ret |-> TRUE]

add_comment(comments, meme_id, user_id) ==
    [comments |-> Append(comments, [id |-> Len(comments) + 1,
                                    meme_id |-> meme_id, user_id |-> user_id]),
     ret |-> TRUE]

\* memes whose owner is a registered user
get_all_memes(users, memes) ==
    SelectSeq(memes, LAMBDA m : get_user_by_id(users, m.user_id) # None)

-----------------------------------------------------------------------------
(* Gallery *)

get_meme_creator(users, memes, meme_id) ==
    LET all_memes == get_all_memes(users, memes)
        i == FirstIndex(all_memes, LAMBDA m : m.id = meme_id)
    IN IF i = 0 THEN NoUser ELSE all_memes[i].user_id

\* blank: the text is empty after strip()
gallery_add_comment(comments, meme_id, user_id, blank) ==
    IF blank THEN [comments |-> comments, ret |-> FALSE]
    ELSE add_comment(comments, meme_id, user_id)

-----------------------------------------------------------------------------
(* Gamification: award_points and _check_achievements *)

\* points = int(self.point_system[action] * bonus_multiplier)
award_delta(action, mult) ==
    IF mult >= 0 THEN float_int(float_mul(point_system[action], to_double(mult)))
    ELSE -float_int(float_mul(point_system[action], to_double(-mult)))

\* check_achievements with the milestone test written >= instead of ==
check_achievements_reached(users, memes, user_id) ==
    LET user_stats == get_user_stats(users, memes, user_id)
    IN IF user_stats = None THEN [users |-> users, calls |-> <<>>]
       ELSE LET i == FirstIndex(milestones,
                                LAMBDA ms : user_stats.memes_count >= ms.meme_count)
            IN IF i = 0 THEN [users |-> users, calls |-> <<>>]
               ELSE LET r == update_user_points(users, user_id, milestones[i].bonus_points)
                    IN [users |-> r.users,
                        calls |-> << [delta |-> milestones[i].bonus_points,
                                      milestone |-> milestones[i].meme_count,
                                      ok |-> r.ret] >>]

\* calls: the update_user_points calls issued, in order, each with its result
check_achievements(users, memes, user_id) ==
    LET user_stats == get_user_stats(users, memes, user_id)
    IN IF user_stats = None THEN [users |-> users, calls |-> <<>>]
       ELSE LET i == FirstIndex(milestones,
                                LAMBDA ms : user_stats.memes_count = ms.meme_count)
            IN IF i = 0 THEN [users |-> users, calls |-> <<>>]
               ELSE LET r == update_user_points(users, user_id, milestones[i].bonus_points)
                    IN [users |-> r.users,
                        calls |-> << [delta |-> milestones[i].bonus_points,
                                      milestone |-> milestones[i].meme_count,
                                      ok |-> r.ret] >>]

NoAward == [called |-> FALSE, user |-> 0, kind |-> "", mult |-> 0, ret |-> FALSE,
            calls |-> <<>>, checked |-> FALSE]

\* award_points that reads the table with a default of 0 instead of testing the kind
award_points_any_kind(users, memes, user_id, action, mult) ==
    LET points == IF action \in DOMAIN point_system THEN award_delta(action, mult) ELSE 0
        r == update_user_points(users, user_id, points)
        base == [delta |-> points, milestone |-> 0, ok |-> r.ret]
    IN IF r.ret
       THEN LET c == check_achievements(r.users, memes, user_id)
            IN [users |-> c.users,
                obs |-> [called |-> TRUE, user |-> user_id, kind |-> action, mult |-> mult,
                         ret |-> TRUE, calls |-> <<base>> \o c.calls, checked |-> TRUE]]
       ELSE [users |-> users,
             obs |-> [called |-> TRUE, user |-> user_id, kind |-> action, mult |-> mult,
                      ret |-> FALSE, calls |-> <<base>>, checked |-> FALSE]]

\* award_points that does not test the result of update_user_points
award_points_unchecked(users, memes, user_id, action, mult) ==
    IF action \notin DOMAIN point_system
    THEN [users |-> users,
          obs |-> [called |-> TRUE, user |-> user_id, kind |-> action, mult |-> mult,
                   ret |-> FALSE, calls |-> <<>>, checked |-> FALSE]]
    ELSE LET points == award_delta(action, mult)
             r == update_user_points(users, user_id, points)
             base == [delta |-> points, milestone |-> 0, ok |-> r.ret]
             c == check_achievements(r.users, memes, user_id)
         IN [users |-> c.users,
             obs |-> [called |-> TRUE, user |-> user_id, kind |-> action, mult |-> mult,
                      ret |-> TRUE, calls |-> <<base>> \o c.calls, checked |-> TRUE]]

\* obs.calls: every update_user_points call (milestone 0 marks the base award);
\* obs.checked: _check_achievements was run
award_points(users, memes, user_id, action, mult) ==
    IF action \notin DOMAIN point_system
    THEN [users |-> users,
          obs |-> [called |-> TRUE, user |-> user_id, kind |-> action, mult |-> mult,
                   ret |-> FALSE, calls |-> <<>>, checked |-> FALSE]]
    ELSE LET points == award_delta(action, mult)
             r == update_user_points(users, user_id, points)
             base == [delta |-> points, milestone |-> 0, ok |-> r.ret]
         IN IF r.ret
            THEN LET c == check_achievements(r.users, memes, user_id)
                 IN [users |-> c.users,
                     obs |-> [called |-> TRUE, user |-> user_id, kind |-> action, mult |-> mult,
                              ret |-> TRUE, calls |-> <<base>> \o c.calls,
                              checked |-> TRUE]]
            ELSE [users |-> users,
                  obs |-> [called |-> TRUE, user |-> user_id, kind |-> action, mult |-> mult,
                           ret |-> FALSE, calls |-> <<base>>, checked |-> FALSE]]

-----------------------------------------------------------------------------
(* Observations and history *)

Obs(op, user_id, meme_id, ret, award) ==
    [op |-> op, user |-> user_id, meme |-> meme_id, ret |-> ret, award |-> award]

\* successful milestone-bonus mutations of one award_points call, as (user, milestone)
BonusPaid(obs) ==
    {<<obs.user, obs.calls[k].milestone>> :
        k \in {n \in 1..Len(obs.calls) : obs.calls[n].milestone # 0 /\ obs.calls[n].ok}}

LogAward(log, obs) ==
    [once  |-> log.once \cup BonusPaid(obs),
     again |-> log.again \cup (log.once \cap BonusPaid(obs))]

TotalPoints(users) == SumSeq([i \in 1..Len(users) |-> users[i].points])

Records == Len(mock_memes) + Len(mock_likes) + Len(mock_comments)

Registered(user_id) == get_user_by_id(mock_users, user_id) # None

PointsOf(users, user_id) == get_user_by_id(users, user_id).points

CountMemes(memes, user_id) == Len(SelectSeq(memes, LAMBDA m : m.user_id = user_id))

-----------------------------------------------------------------------------
(* Badges.  A statistics dict is a function from keys to values; the emoji   *)
(* of a badge is written by its name, and the label f"{emoji} {badge_name}"  *)
(* is the pair <<emoji, name>>.  A lambda requirement stats[key] >= min is   *)
(* the pair key, min of a callable entry.                                    *)

NoStats == [k \in {} |-> 0]

\* d.get(k, default)
DictGet(d, k, default) == IF k \in DOMAIN d THEN d[k] ELSE default

\* the table with 'Getting Started' given at 4 memes
badges_off_by_one ==
    <<
       [name |-> "First Steps", emoji |-> "baby", callable |-> FALSE,
        key |-> "", min |-> 0, special |-> "first_meme"],
       [name |-> "Getting Started", emoji |-> "checkered_flag", callable |-> TRUE,
        key |-> "memes_count", min |-> 4, special |-> ""],
       [name |-> "Meme Machine", emoji |-> "factory", callable |-> TRUE,
        key |-> "memes_count", min |-> 25, special |-> ""],
       [name |-> "Prolific Creator", emoji |-> "rocket", callable |-> TRUE,
        key |-> "memes_count", min |-> 50, special |-> ""],
       [name |-> "Meme Master", emoji |-> "crown", callable |-> TRUE,
        key |-> "memes_count", min |-> 100, special |-> ""],
       [name |-> "First Fan", emoji |-> "heart", callable |-> TRUE,
        key |-> "total_likes", min |-> 1, special |-> ""],
       [name |-> "Rising Star", emoji |-> "star", callable |-> TRUE,
        key |-> "total_likes", min |-> 25, special |-> ""],
       [name |-> "Popular", emoji |-> "glowing_star", callable |-> TRUE,
        key |-> "total_likes", min |-> 100, special |-> ""],
       [name |-> "Viral Sensation", emoji |-> "collision", callable |-> TRUE,
        key |-> "total_likes", min |-> 500, special |-> ""],
       [name |-> "Internet Famous", emoji |-> "trophy", callable |-> TRUE,
        key |-> "total_likes", min |-> 1000, special |-> ""],
       [name |-> "Commentator", emoji |-> "speech_balloon", callable |-> TRUE,
        key |-> "comments_made", min |-> 10, special |-> ""],
       [name |-> "Social Butterfly", emoji |-> "butterfly", callable |-> TRUE,
        key |-> "comments_made", min |-> 50, special |-> ""],
       [name |-> "Community Helper", emoji |-> "handshake", callable |-> TRUE,
        key |-> "comments_made", min |-> 100, special |-> ""],
       [name |-> "Early Bird", emoji |-> "sunrise", callable |-> FALSE,
        key |-> "", min |-> 0, special |-> "daily_login_streak_7"],
       [name |-> "Night Owl", emoji |-> "owl", callable |-> FALSE,
        key |-> "", min |-> 0, special |-> "late_night_creator"],
       [name |-> "Weekend Warrior", emoji |-> "crossed_swords", callable |-> FALSE,
        key |-> "", min |-> 0, special |-> "weekend_creator"],
       [name |-> "Trendsetter", emoji |-> "dart", callable |-> FALSE,
        key |-> "", min |-> 0, special |-> "early_adopter"],
       [name |-> "Quality Creator", emoji |-> "gem", callable |-> FALSE,
        key |-> "", min |-> 0, special |-> "high_like_ratio"],
       [name |-> "Consistent Creator", emoji |-> "calendar", callable |-> FALSE,
        key |-> "", min |-> 0, special |-> "consistent_creator"],
       [name |-> "Meme Archaeologist", emoji |-> "classical_building", callable |-> FALSE,
        key |-> "", min |-> 0, special |-> "old_template_user"]
    >>

\* Gamification.badges, in the order of the dict
badges ==
    <<
       [name |-> "First Steps", emoji |-> "baby", callable |-> FALSE,
        key |-> "", min |-> 0, special |-> "first_meme"],
       [name |-> "Getting Started", emoji |-> "checkered_flag", callable |-> TRUE,
        key |-> "memes_count", min |-> 5, special |-> ""],
       [name |-> "Meme Machine", emoji |-> "factory", callable |-> TRUE,
        key |-> "memes_count", min |-> 25, special |-> ""],
       [name |-> "Prolific Creator", emoji |-> "rocket", callable |-> TRUE,
        key |-> "memes_count", min |-> 50, special |-> ""],
       [name |-> "Meme Master", emoji |-> "crown", callable |-> TRUE,
        key |-> "memes_count", min |-> 100, special |-> ""],
       [name |-> "First Fan", emoji |-> "heart", callable |-> TRUE,
        key |-> "total_likes", min |-> 1, special |-> ""],
       [name |-> "Rising Star", emoji |-> "star", callable |-> TRUE,
        key |-> "total_likes", min |-> 25, special |-> ""],
       [name |-> "Popular", emoji |-> "glowing_star", callable |-> TRUE,
        key |-> "total_likes", min |-> 100, special |-> ""],
       [name |-> "Viral Sensation", emoji |-> "collision", callable |-> TRUE,
        key |-> "total_likes", min |-> 500, special |-> ""],
       [name |-> "Internet Famous", emoji |-> "trophy", callable |-> TRUE,
        key |-> "total_likes", min |-> 1000, special |-> ""],
       [name |-> "Commentator", emoji |-> "speech_balloon", callable |-> TRUE,
        key |-> "comments_made", min |-> 10, special |-> ""],
       [name |-> "Social Butterfly", emoji |-> "butterfly", callable |-> TRUE,
        key |-> "comments_made", min |-> 50, special |-> ""],
       [name |-> "Community Helper", emoji |-> "handshake", callable |-> TRUE,
        key |-> "comments_made", min |-> 100, special |-> ""],
       [name |-> "Early Bird", emoji |-> "sunrise", callable |-> FALSE,
        key |-> "", min |-> 0, special |-> "daily_login_streak_7"],
       [name |-> "Night Owl", emoji |-> "owl", callable |-> FALSE,
        key |-> "", min |-> 0, special |-> "late_night_creator"],
       [name |-> "Weekend Warrior", emoji |-> "crossed_swords", callable |-> FALSE,
        key |-> "", min |-> 0, special |-> "weekend_creator"],
       [name |-> "Trendsetter", emoji |-> "dart", callable |-> FALSE,
        key |-> "", min |-> 0, special |-> "early_adopter"],
       [name |-> "Quality Creator", emoji |-> "gem", callable |-> FALSE,
        key |-> "", min |-> 0, special |-> "high_like_ratio"],
       [name |-> "Consistent Creator", emoji |-> "calendar", callable |-> FALSE,
        key |-> "", min |-> 0, special |-> "consistent_creator"],
       [name |-> "Meme Archaeologist", emoji |-> "classical_building", callable |-> FALSE,
        key |-> "", min |-> 0, special |-> "old_template_user"]
    >>

\* check_special_requirement taking a user without user_id for the first user
check_special_requirement_first_user(requirement, user_stats) ==
    IF requirement = "first_meme" THEN user_stats["memes_count"] >= 1
    ELSE IF requirement = "daily_login_streak_7" THEN user_stats["points"] >= 50
    ELSE IF requirement = "late_night_creator" THEN user_stats["memes_count"] >= 5
    ELSE IF requirement = "weekend_creator" THEN user_stats["memes_count"] >= 3
    ELSE IF requirement = "early_adopter" THEN DictGet(user_stats, "user_id", 1) <= 100
    ELSE IF requirement = "high_like_ratio"
         THEN IF user_stats["memes_count"] > 0
              \* total_likes / memes_count >= 10, a correctly rounded quotient of two ints
              THEN user_stats["total_likes"] >= 10 * user_stats["memes_count"]
              ELSE FALSE
    ELSE IF requirement = "consistent_creator" THEN user_stats["memes_count"] >= 30
    ELSE IF requirement = "old_template_user" THEN user_stats["memes_count"] >= 10
    ELSE FALSE

check_special_requirement(requirement, user_stats) ==
    IF requirement = "first_meme" THEN user_stats["memes_count"] >= 1
    ELSE IF requirement = "daily_login_streak_7" THEN user_stats["points"] >= 50
    ELSE IF requirement = "late_night_creator" THEN user_stats["memes_count"] >= 5
    ELSE IF requirement = "weekend_creator" THEN user_stats["memes_count"] >= 3
    ELSE IF requirement = "early_adopter" THEN DictGet(user_stats, "user_id", 999) <= 100
    ELSE IF requirement = "high_like_ratio"
         THEN IF user_stats["memes_count"] > 0
              \* total_likes / memes_count >= 10, a correctly rounded quotient of two ints
              THEN user_stats["total_likes"] >= 10 * user_stats["memes_count"]
              ELSE FALSE
    ELSE IF requirement = "consistent_creator" THEN user_stats["memes_count"] >= 30
    ELSE IF requirement = "old_template_user" THEN user_stats["memes_count"] >= 10
    ELSE FALSE

\* the user_stats dict of get_user_badges: ** additional_stats is applied last
merge_stats(points, memes_count, additional_stats) ==
    LET basic == [points |-> points, memes_count |-> memes_count,
                  total_likes |-> DictGet(additional_stats, "total_likes", 0),
                  comments_made |-> DictGet(additional_stats, "comments_made", 0)]
    IN [k \in DOMAIN basic \cup DOMAIN additional_stats |->
           IF k \in DOMAIN additional_stats THEN additional_stats[k] ELSE basic[k]]

\* get_user_badges that leaves out the string requirements
get_user_badges_callable_only(points, memes_count, additional_stats) ==
    LET user_stats == merge_stats(points, memes_count, additional_stats)
        earned == SelectSeq(badges, LAMBDA b :
                      b.callable /\ DictGet(user_stats, b.key, 0) >= b.min)
    IN [i \in 1..Len(earned) |-> <<earned[i].emoji, earned[i].name>>]

get_user_badges(points, memes_count, additional_stats) ==
    LET user_stats == merge_stats(points, memes_count, additional_stats)
        earned == SelectSeq(badges, LAMBDA b :
                      IF b.callable THEN DictGet(user_stats, b.key, 0) >= b.min
                      ELSE check_special_requirement(b.special, user_stats))
    IN [i \in 1..Len(earned) |-> <<earned[i].emoji, earned[i].name>>]

\* profile_page: the badges shown for the logged-in user
profile_badges(users, memes, user_id) ==
    LET user_data == get_user_stats(users, memes, user_id)
    IN get_user_badges(user_data.points, user_data.memes_count, NoStats)

-----------------------------------------------------------------------------
(* sorted(..., reverse=True): a stable sort, so items with equal keys keep   *)
(* their input order.  lt[i][j] says that the key of item i is less than the *)
(* key of item j; the result lists the input positions in output order.      *)

\* insert_desc putting position k before the positions of an equal key
insert_desc_before_equal(out, k, lt) ==
    LET p == FirstIndex(out, LAMBDA i : ~lt[k][i])
    IN IF p = 0 THEN Append(out, k)
       ELSE SubSeq(out, 1, p - 1) \o <<k>> \o SubSeq(out, p, Len(out))

\* out with position k put behind every position whose key is not less
insert_desc(out, k, lt) ==
    LET p == FirstIndex(out, LAMBDA i : lt[i][k])
    IN IF p = 0 THEN Append(out, k)
       ELSE SubSeq(out, 1, p - 1) \o <<k>> \o SubSeq(out, p, Len(out))

RECURSIVE sorted_from(_, _, _, _)
sorted_from(out, k, n, lt) ==
    IF k > n THEN out ELSE sorted_from(insert_desc(out, k, lt), k + 1, n, lt)

sorted_desc(n, lt) == sorted_from(<<>>, 1, n, lt)

-----------------------------------------------------------------------------
(* Ranks and levels of utils/gamification.py *)

\* Gamification.rank_thresholds, in the order of the dict
rank_thresholds ==
    << [name |-> "Newbie", threshold |-> 0],
       [name |-> "Rookie Memer", threshold |-> 50],
       [name |-> "Meme Enthusiast", threshold |-> 200],
       [name |-> "Pro Memer", threshold |-> 500],
       [name |-> "Meme Legend", threshold |-> 1000] >>

\* self.rank_thresholds[name]
threshold_of(name) ==
    rank_thresholds[FirstIndex(rank_thresholds, LAMBDA r : r.name = name)].threshold

\* sorted(self.rank_thresholds.items(), key=lambda x: x[1], reverse=True)
ranks_descending ==
    LET n == Len(rank_thresholds)
        lt == [i \in 1..n |-> [j \in 1..n |->
                  rank_thresholds[i].threshold < rank_thresholds[j].threshold]]
        order == sorted_desc(n, lt)
    IN [i \in 1..n |-> rank_thresholds[order[i]]]

\* get_user_rank that takes a tier only above its threshold
get_user_rank_above(points) ==
    LET i == FirstIndex(ranks_descending, LAMBDA r : points > r.threshold)
    IN IF i = 0 THEN "Newbie" ELSE ranks_descending[i].name

get_user_rank(points) ==
    LET i == FirstIndex(ranks_descending, LAMBDA r : points >= r.threshold)
    IN IF i = 0 THEN "Newbie" ELSE ranks_descending[i].name

\* min(next_ranks, key=lambda x: x[1]): the first of the least
min_by_threshold(ranks) ==
    FirstIndex(ranks, LAMBDA r : \A i \in 1..Len(ranks) : r.threshold <= ranks[i].threshold)

next_rank_record(current_points, current_rank, current_threshold, next) ==
    [current_rank |-> current_rank,
     next_rank |-> next.name,
     current_points |-> current_points,
     next_threshold |-> next.threshold,
     points_needed |-> next.threshold - current_points,
     current_min |-> current_threshold,
     next_min |-> next.threshold]

\* get_next_rank_info that takes the highest of the tiers above
get_next_rank_info_highest(current_points) ==
    LET current_rank == get_user_rank(current_points)
        current_threshold == threshold_of(current_rank)
        next_ranks == SelectSeq(rank_thresholds, LAMBDA r : r.threshold > current_threshold)
    IN IF next_ranks = <<>> THEN None
       ELSE next_rank_record(current_points, current_rank, current_threshold,
                             next_ranks[Len(next_ranks)])

\* get_next_rank_info that keeps the current tier among the candidates
get_next_rank_info_inclusive(current_points) ==
    LET current_rank == get_user_rank(current_points)
        current_threshold == threshold_of(current_rank)
        next_ranks == SelectSeq(rank_thresholds, LAMBDA r : r.threshold >= current_threshold)
    IN IF next_ranks = <<>> THEN None
       ELSE next_rank_record(current_points, current_rank, current_threshold,
                             next_ranks[Len(next_ranks)])

get_next_rank_info(current_points) ==
    LET current_rank == get_user_rank(current_points)
        current_threshold == threshold_of(current_rank)
        next_ranks == SelectSeq(rank_thresholds, LAMBDA r : r.threshold > current_threshold)
    IN IF next_ranks = <<>> THEN None
       ELSE next_rank_record(current_points, current_rank, current_threshold,
                             next_ranks[min_by_threshold(next_ranks)])

\* progress_percentage is the float (points_in_level / 100) * 100
calculate_level(points) ==
    LET points_in_level == points % 100
    IN [level |-> points \div 100 + 1,
        points_in_level |-> points_in_level,
        points_to_next |-> 100 - points_in_level,
        progress_percentage |-> float_mul(100, float_div(points_in_level, 100))]

\* the achievements list of get_achievement_progress
achievements(user_stats) ==
    << [name |-> "Meme Creator",
        current |-> user_stats["memes_count"],
        milestones |-> <<1, 5, 10, 25, 50, 100>>,
        rewards |-> <<10, 25, 50, 75, 100, 200>>],
       [name |-> "Popular Creator",
        current |-> DictGet(user_stats, "total_likes", 0),
        milestones |-> <<1, 10, 50, 100, 500, 1000>>,
        rewards |-> <<5, 15, 30, 50, 100, 200>>],
       [name |-> "Community Member",
        current |-> DictGet(user_stats, "comments_made", 0),
        milestones |-> <<1, 5, 10, 25, 50, 100>>,
        rewards |-> <<2, 10, 15, 25, 50, 75>>] >>

\* (n / d) * 100 for ints n and d > 0, as a signed float
percent_of(n, d) ==
    LET mag == float_mul(100, float_div(IF n < 0 THEN -n ELSE n, d))
    IN [neg |-> n < 0, mant |-> mag.mant, exp |-> mag.exp]

percent_100 == [neg |-> FALSE, mant |-> BigFromInt(100), exp |-> 0]

\* min(100, progress)
min_100(progress) ==
    IF progress.neg \/ float_less(progress, percent_100) THEN progress ELSE percent_100

\* the loop body with the fall-through taking the first milestone and reward
track_progress_first(achievement) ==
    LET current == achievement.current
        track == achievement.milestones
        i == FirstIndex(track, LAMBDA milestone : current < milestone)
        progress == IF i = 0 THEN percent_100
                    ELSE IF i > 1
                    THEN percent_of(current - track[i - 1], track[i] - track[i - 1])
                    ELSE percent_of(current, track[i])
    IN [name |-> achievement.name, current |-> current,
        next_milestone |-> IF i = 0 THEN track[1] ELSE track[i],
        next_reward |-> IF i = 0 THEN achievement.rewards[1]
                        ELSE achievement.rewards[i],
        progress_percentage |-> min_100(progress)]

\* the loop body of get_achievement_progress for one achievement
track_progress(achievement) ==
    LET current == achievement.current
        track == achievement.milestones
        i == FirstIndex(track, LAMBDA milestone : current < milestone)
        progress == IF i = 0 THEN percent_100
                    ELSE IF i > 1
                    THEN percent_of(current - track[i - 1], track[i] - track[i - 1])
                    ELSE percent_of(current, track[i])
    IN [name |-> achievement.name, current |-> current,
        next_milestone |-> IF i = 0 THEN track[Len(track)] ELSE track[i],
        next_reward |-> IF i = 0 THEN achievement.rewards[Len(track)]
                        ELSE achievement.rewards[i],
        progress_percentage |-> min_100(progress)]

get_achievement_progress(user_stats) ==
    LET list == achievements(user_stats)
    IN [a \in 1..Len(list) |-> track_progress(list[a])]

\* get_user_statistics_summary: the stats dict of get_user_stats is handed to
\* get_user_badges as additional_stats and to get_achievement_progress; the
\* constant weekly_challenge and the completion_rate are left out
get_user_statistics_summary(users, memes, user_id) ==
    LET user_stats == get_user_stats(users, memes, user_id)
    IN IF user_stats = None THEN None
       ELSE LET earned == get_user_badges(user_stats.points, user_stats.memes_count,
                                          user_stats)
            IN [user_stats |-> user_stats,
                level_info |-> calculate_level(user_stats.points),
                rank_info |-> get_next_rank_info(user_stats.points),
                badges |-> earned,
                achievements |-> get_achievement_progress(user_stats),
                badges_count |-> Len(earned)]

-----------------------------------------------------------------------------
(* Gallery scores.  Instants are whole seconds, so total_seconds() of a      *)
(* difference is an integer-valued float.                                    *)

\* time_diff.total_seconds() / 3600 for a difference of seconds >= 0
age_hours_of(seconds) == float_divide(float_of_int(seconds), float_of_int(3600))

\* _calculate_trending_score for age_hours > 0
trending_decayed(engagement, age_hours) ==
    LET time_decay == float_divide(float_of_int(1),
                                   float_add(float_of_int(1),
                                             float_divide(age_hours, float_of_int(24))))
    IN float_mul(10, float_mul(engagement, time_decay))

\* the score of an item whose age is seconds (< 0 when created_at is in the future)
calculate_trending_score(engagement, seconds) ==
    IF seconds < 0 THEN float_of_int(engagement * 10)
    ELSE LET age_hours == age_hours_of(seconds)
         IN IF age_hours.mant = <<>> THEN float_of_int(engagement * 10)
            ELSE trending_decayed(engagement, age_hours)

\* save_meme keeping meme_data['created_at'] in the record; created_at is the
\* instant whose isoformat() the record holds: the strings compare as the instants
save_meme_at(users, memes, user_id, created_at) ==
    LET s == save_meme(users, memes, user_id)
        meme == s.memes[Len(s.memes)]
    IN [s EXCEPT !.memes = [s.memes EXCEPT ![Len(s.memes)] =
                               [id |-> meme.id, user_id |-> meme.user_id,
                                likes_count |-> meme.likes_count,
                                created_at |-> created_at]]]

\* comments of a meme whose author is a registered user (their order is not used)
get_comments(users, comments, meme_id) ==
    SelectSeq(comments, LAMBDA c : c.meme_id = meme_id /\ get_user_by_id(users, c.user_id) # None)

\* the fields of get_meme_stats that depend on the store; None for {}
get_meme_stats(users, memes, comments, meme_id, now) ==
    LET all_memes == get_all_memes(users, memes)
        i == FirstIndex(all_memes, LAMBDA m : m.id = meme_id)
    IN IF i = 0 THEN None
       ELSE LET meme == all_memes[i]
                comments_count == Len(get_comments(users, comments, meme_id))
                total_engagement == meme.likes_count + comments_count
            IN [meme_id |-> meme_id, likes_count |-> meme.likes_count,
                comments_count |-> comments_count,
                engagement_score |-> total_engagement,
                trending_score |-> calculate_trending_score(total_engagement,
                                                            now - meme.created_at)]

\* the items of memes in the order of the positions
reordered(memes, order) == [k \in 1..Len(order) |-> memes[order[k]]]

\* sort_by_latest that only reverses its input
sort_by_latest_reversed(memes) ==
    [k \in 1..Len(memes) |-> memes[Len(memes) + 1 - k]]

sort_by_latest(memes) ==
    LET n == Len(memes)
        lt == [i \in 1..n |-> [j \in 1..n |-> memes[i].created_at < memes[j].created_at]]
    IN reordered(memes, sorted_desc(n, lt))

sort_by_likes(memes) ==
    LET n == Len(memes)
        lt == [i \in 1..n |-> [j \in 1..n |-> memes[i].likes_count < memes[j].likes_count]]
    IN reordered(memes, sorted_desc(n, lt))

\* meme['trending_score'] = stats.get('trending_score', 0) for the items from
\* position k on; nows[k] is the datetime.now() read for item k
RECURSIVE scored_from(_, _, _, _, _, _)
scored_from(users, memes, comments, all_memes, nows, k) ==
    IF k > Len(all_memes) THEN <<>>
    ELSE LET meme == all_memes[k]
             stats == get_meme_stats(users, memes, comments, meme.id, nows[k])
         IN << [id |-> meme.id, user_id |-> meme.user_id,
                likes_count |-> meme.likes_count, created_at |-> meme.created_at,
                trending_score |-> IF stats = None THEN float_of_int(0)
                                   ELSE stats.trending_score] >>
            \o scored_from(users, memes, comments, all_memes, nows, k + 1)

scored(users, memes, comments, all_memes, nows) ==
    scored_from(users, memes, comments, all_memes, nows, 1)

sort_by_trending(users, memes, comments, all_memes, nows) ==
    LET items == scored(users, memes, comments, all_memes, nows)
        n == Len(items)
        lt == [i \in 1..n |-> [j \in 1..n |->
                  float_less(items[i].trending_score, items[j].trending_score)]]
    IN reordered(items, sorted_desc(n, lt))

\* x with the items at positions i and j exchanged
swapped(x, i, j) == [x EXCEPT ![i] = x[j], ![j] = x[i]]

\* random.shuffle from index i (0-based) down to 1: j = randbelow(i + 1), then
\* x[i], x[j] = x[j], x[i]; draws[i] is the j the generator yields at index i
RECURSIVE shuffle_from(_, _, _)
shuffle_from(x, i, draws) ==
    IF i < 1 THEN x ELSE shuffle_from(swapped(x, i + 1, draws[i] + 1), i - 1, draws)

\* memes_copy = memes.copy(); random.shuffle(memes_copy)
sort_by_random(memes, draws) == shuffle_from(memes, Len(memes) - 1, draws)

\* all_memes[:limit]
limited(memes, limit) == SubSeq(memes, 1, IF Len(memes) < limit THEN Len(memes) ELSE limit)

DefaultLimit == 20

-----------------------------------------------------------------------------
(* Operations, without the bounds of a specification *)

\* SupabaseClient.register_user, from the Sign Up tab of auth_page
RegisterUserOp(email) ==
    LET r == register_user(mock_users, email)
    IN /\ mock_users' = r.users
       /\ last' = Obs("register_user", IF r.ret = None THEN NoUser ELSE r.ret.id,
                      0, r.ret # None, NoAward)
       /\ UNCHANGED <<mock_memes, mock_comments, mock_likes, milestone_log>>

\* Gamification.award_points
AwardPointsOp(user_id, action, mult) ==
    LET a == award_points(mock_users, mock_memes, user_id, action, mult)
    IN /\ mock_users' = a.users
       /\ last' = Obs("award_points", user_id, 0, a.obs.ret, a.obs)
       /\ milestone_log' = LogAward(milestone_log, a.obs)
       /\ UNCHANGED <<mock_memes, mock_comments, mock_likes>>

\* SupabaseClient.save_meme
SaveMemeOp(user_id) ==
    LET s == save_meme(mock_users, mock_memes, user_id)
    IN /\ mock_users' = s.users
       /\ mock_memes' = s.memes
       /\ last' = Obs("save_meme", user_id, Len(mock_memes) + 1, s.ret, NoAward)
       /\ UNCHANGED <<mock_comments, mock_likes, milestone_log>>

\* app.save_meme_to_gallery: save, then award 'create_meme' to the session user
SaveMemeToGalleryOp(user_id) ==
    LET s == save_meme(mock_users, mock_memes, user_id)
        a == award_points(s.users, s.memes, user_id, "create_meme", DefaultMultiplier)
    IN /\ Registered(user_id)
       /\ mock_users' = a.users
       /\ mock_memes' = s.memes
       /\ last' = Obs("save_meme_to_gallery", user_id, Len(mock_memes) + 1, s.ret, a.obs)
       /\ milestone_log' = LogAward(milestone_log, a.obs)
       /\ UNCHANGED <<mock_comments, mock_likes>>

\* Gallery.delete_meme -> SupabaseClient.delete_meme (my_memes_page and direct calls)
DeleteMemeOp(meme_id, user_id) ==
    LET d == delete_meme(mock_users, mock_memes, meme_id, user_id)
    IN /\ mock_users' = d.users
       /\ mock_memes' = d.memes
       /\ last' = Obs("delete_meme", user_id, meme_id, d.ret, NoAward)
       /\ UNCHANGED <<mock_comments, mock_likes, milestone_log>>

\* Gallery.like_meme -> SupabaseClient.like_meme
LikeMemeOp(meme_id, user_id) ==
    LET l == like_meme(mock_memes, mock_likes, meme_id, user_id)
    IN /\ mock_memes' = l.memes
       /\ mock_likes' = l.likes
       /\ last' = Obs("like_meme", user_id, meme_id, l.ret, NoAward)
       /\ UNCHANGED <<mock_users, mock_comments, milestone_log>>

\* app.like_meme: like, then award 'get_like' to the creator of the meme
AppLikeMemeOp(meme_id, user_id) ==
    LET l == like_meme(mock_memes, mock_likes, meme_id, user_id)
        meme_creator == get_meme_creator(mock_users, l.memes, meme_id)
        a == award_points(mock_users, l.memes, meme_creator, "get_like", DefaultMultiplier)
        awarded == l.ret /\ meme_creator # NoUser
    IN /\ Registered(user_id)
       /\ mock_memes' = l.memes
       /\ mock_likes' = l.likes
       /\ mock_users' = IF awarded THEN a.users ELSE mock_users
       /\ last' = Obs("app_like_meme", user_id, meme_id, l.ret,
                      IF awarded THEN a.obs ELSE NoAward)
       /\ milestone_log' = IF awarded THEN LogAward(milestone_log, a.obs)
                           ELSE milestone_log
       /\ UNCHANGED mock_comments

\* Gallery.add_comment -> SupabaseClient.add_comment
AddCommentOp(meme_id, user_id, blank) ==
    LET c == gallery_add_comment(mock_comments, meme_id, user_id, blank)
    IN /\ mock_comments' = c.comments
       /\ last' = Obs("add_comment", user_id, meme_id, c.ret, NoAward)
       /\ UNCHANGED <<mock_users, mock_memes, mock_likes, milestone_log>>

\* app.show_comment_section: a non-blank comment, then award 'comment' to its author
ShowCommentSectionOp(meme_id, user_id) ==
    LET c == gallery_add_comment(mock_comments, meme_id, user_id, FALSE)
        a == award_points(mock_users, mock_memes, user_id, "comment", DefaultMultiplier)
    IN /\ Registered(user_id)
       /\ mock_comments' = c.comments
       /\ mock_users' = IF c.ret THEN a.users ELSE mock_users
       /\ last' = Obs("show_comment_section", user_id, meme_id, c.ret,
                      IF c.ret THEN a.obs ELSE NoAward)
       /\ milestone_log' = IF c.ret THEN LogAward(milestone_log, a.obs) ELSE milestone_log
       /\ UNCHANGED <<mock_memes, mock_likes>>

-----------------------------------------------------------------------------
(* Spec: the application from the empty store of init_mock_db.  Records are *)
(* added while fewer than MaxRecords exist, points awarded while the users  *)
(* hold at most MaxPoints together.                                         *)

NoRace == [none |-> TRUE]
NoBadgeEval == [none |-> TRUE]
NoCalc == [none |-> TRUE]

Init ==
    /\ mock_users = <<>>
    /\ mock_memes = <<>>
    /\ mock_comments = <<>>
    /\ mock_likes = <<>>
    /\ last = Obs("init", NoUser, 0, TRUE, NoAward)
    /\ milestone_log = [once |-> {}, again |-> {}]
    /\ calls_left = 0
    /\ race = NoRace
    /\ badge_eval = NoBadgeEval
    /\ calc = NoCalc

RegisterUser ==
    /\ \E email \in Emails : RegisterUserOp(email)
    /\ UNCHANGED <<calls_left, race, badge_eval, calc>>

AwardPoints ==
    /\ \E user_id \in UserIds, action \in SpecKinds, mult \in SpecMultipliers :
          AwardPointsOp(user_id, action, mult)
    /\ TotalPoints(mock_users') <= MaxPoints
    /\ UNCHANGED <<calls_left, race, badge_eval, calc>>

SaveMeme ==
    /\ Records < MaxRecords
    /\ \E user_id \in UserIds : SaveMemeOp(user_id)
    /\ UNCHANGED <<calls_left, race, badge_eval, calc>>

SaveMemeToGallery ==
    /\ Records < MaxRecords
    /\ \E user_id \in UserIds : SaveMemeToGalleryOp(user_id)
    /\ TotalPoints(mock_users') <= MaxPoints
    /\ UNCHANGED <<calls_left, race, badge_eval, calc>>

DeleteMeme ==
    /\ \E meme_id \in MemeIds, user_id \in UserIds : DeleteMemeOp(meme_id, user_id)
    /\ UNCHANGED <<calls_left, race, badge_eval, calc>>

LikeMeme ==
    /\ Records < MaxRecords
    /\ \E meme_id \in MemeIds, user_id \in UserIds : LikeMemeOp(meme_id, user_id)
    /\ UNCHANGED <<calls_left, race, badge_eval, calc>>

AppLikeMeme ==
    /\ Records < MaxRecords
    /\ \E meme_id \in MemeIds, user_id \in UserIds : AppLikeMemeOp(meme_id, user_id)
    /\ TotalPoints(mock_users') <= MaxPoints
    /\ UNCHANGED <<calls_left, race, badge_eval, calc>>

AddComment ==
    /\ Records < MaxRecords
    /\ \E meme_id \in MemeIds, user_id \in UserIds, blank \in BOOLEAN :
          AddCommentOp(meme_id, user_id, blank)
    /\ UNCHANGED <<calls_left, race, badge_eval, calc>>

ShowCommentSection ==
    /\ Records < MaxRecords
    /\ \E meme_id \in MemeIds, user_id \in UserIds : ShowCommentSectionOp(meme_id, user_id)
    /\ TotalPoints(mock_users') <= MaxPoints
    /\ UNCHANGED <<calls_left, race, badge_eval, calc>>

Next ==
    \/ RegisterUser
    \/ AwardPoints
    \/ SaveMeme
    \/ SaveMemeToGallery
    \/ DeleteMeme
    \/ LikeMeme
    \/ AppLikeMeme
    \/ AddComment
    \/ ShowCommentSection

Spec == Init /\ [][Next]_vars

-----------------------------------------------------------------------------
(* SpecAward: awards around the milestone counts.  It starts from the store *)
(* left by MaxUsers register_user calls and k save_meme calls of user 1,    *)
(* k just below a milestone, and lets at most AwardCalls awards follow.     *)

ProbeStart == {4, 9, 24, 49, 99}
ProbeCounts == UNION {{k, k + 1, k + 2} : k \in ProbeStart}
ProbeMemes == {5}        \* meme ids deleted and liked
ProbeOwner == 1          \* the user who saves memes

ProbeUsers(k) ==
    [i \in 1..MaxUsers |->
        [id |-> i, email |-> i, points |-> 0, rank |-> "Newbie",
         memes_count |-> IF i = 1 THEN k ELSE 0, total_likes |-> 0]]

ProbeMemeTable(k) == [j \in 1..k |-> [id |-> j, user_id |-> 1, likes_count |-> 0]]

InitAward ==
    /\ \E k \in ProbeStart :
          /\ mock_users = ProbeUsers(k)
          /\ mock_memes = ProbeMemeTable(k)
    /\ mock_comments = <<>>
    /\ mock_likes = <<>>
    /\ last = Obs("init", NoUser, 0, TRUE, NoAward)
    /\ milestone_log = [once |-> {}, again |-> {}]
    /\ calls_left = AwardCalls
    /\ race = NoRace
    /\ badge_eval = NoBadgeEval
    /\ calc = NoCalc

Spend == calls_left' = IF last'.award.called THEN calls_left - 1 ELSE calls_left

ProbeAward ==
    /\ calls_left > 0
    /\ \E user_id \in UserIds, action \in ProbeKinds, mult \in SpecMultipliers :
          AwardPointsOp(user_id, action, mult)
    /\ Spend
    /\ UNCHANGED <<race, badge_eval, calc>>

ProbeSave ==
    /\ Len(mock_memes) + 1 \in ProbeCounts
    /\ SaveMemeOp(ProbeOwner)
    /\ UNCHANGED <<calls_left, race, badge_eval, calc>>

ProbeSaveToGallery ==
    /\ calls_left > 0
    /\ Len(mock_memes) + 1 \in ProbeCounts
    /\ SaveMemeToGalleryOp(ProbeOwner)
    /\ Spend
    /\ UNCHANGED <<race, badge_eval, calc>>

ProbeDelete ==
    /\ \E meme_id \in ProbeMemes, user_id \in UserIds : DeleteMemeOp(meme_id, user_id)
    /\ UNCHANGED <<calls_left, race, badge_eval, calc>>

ProbeLike ==
    /\ calls_left > 0
    /\ Len(mock_likes) < MaxLikes
    /\ \E user_id \in UserIds : AppLikeMemeOp(Min(ProbeMemes), user_id)
    /\ Spend
    /\ UNCHANGED <<race, badge_eval, calc>>

NextAward ==
    \/ ProbeAward
    \/ ProbeSave
    \/ ProbeSaveToGallery
    \/ ProbeDelete
    \/ ProbeLike

SpecAward == InitAward /\ [][NextAward]_vars

-----------------------------------------------------------------------------
(* SpecDelta: award_points as a function of its arguments, over every kind  *)
(* and multiplier, for registered users and one id that is not registered,  *)
(* on a store where user 1 owns no meme or five.                            *)

DeltaStart == {0, 5}
DeltaUsers == 1..(MaxUsers + 1)

InitDelta ==
    /\ \E k \in DeltaStart :
          /\ mock_users = ProbeUsers(k)
          /\ mock_memes = ProbeMemeTable(k)
    /\ mock_comments = <<>>
    /\ mock_likes = <<>>
    /\ last = Obs("init", NoUser, 0, TRUE, NoAward)
    /\ milestone_log = [once |-> {}, again |-> {}]
    /\ calls_left = DeltaCalls
    /\ race = NoRace
    /\ badge_eval = NoBadgeEval
    /\ calc = NoCalc

DeltaAward ==
    /\ calls_left > 0
    /\ \E user_id \in DeltaUsers, action \in Kinds, mult \in Multipliers :
          AwardPointsOp(user_id, action, mult)
    /\ Spend
    /\ UNCHANGED <<race, badge_eval, calc>>

NextDelta == DeltaAward

SpecDelta == InitDelta /\ [][NextDelta]_vars

-----------------------------------------------------------------------------
(* SpecRace: two award_points calls running concurrently on one store.       *)
(* update_user_points has no lock: it finds the record, evaluates            *)
(* user.get('points', 0) + points, stores the sum, then reads the points     *)
(* again for the rank.  A caller can be preempted between any two of these.  *)

RaceProcs == {1, 2}
RaceKinds == {"get_like", "comment", "create_meme"}

InitRace ==
    /\ mock_users = ProbeUsers(0)
    /\ mock_memes = ProbeMemeTable(0)
    /\ mock_comments = <<>>
    /\ mock_likes = <<>>
    /\ last = Obs("init", NoUser, 0, TRUE, NoAward)
    /\ milestone_log = [once |-> {}, again |-> {}]
    /\ calls_left = 0
    /\ race = [pc |-> [p \in RaceProcs |-> "idle"],
               user |-> [p \in RaceProcs |-> NoUser],
               delta |-> [p \in RaceProcs |-> 0],
               sum |-> [p \in RaceProcs |-> 0],
               ret |-> [p \in RaceProcs |-> FALSE]]
    /\ badge_eval = NoBadgeEval
    /\ calc = NoCalc

RaceKeep == UNCHANGED <<mock_memes, mock_comments, mock_likes, last, milestone_log,
                        calls_left, badge_eval, calc>>

\* award_points up to the search loop of update_user_points
RaceCall(p) ==
    /\ race.pc[p] = "idle"
    /\ \E user_id \in DeltaUsers, action \in RaceKinds :
          LET found == FirstIndex(mock_users, LAMBDA u : u.id = user_id) # 0
          IN race' = [race EXCEPT !.pc[p] = IF found THEN "read" ELSE "done",
                                  !.user[p] = user_id,
                                  !.delta[p] = award_delta(action, DefaultMultiplier)]
    /\ UNCHANGED mock_users
    /\ RaceKeep

\* user.get('points', 0) + points
RaceRead(p) ==
    /\ race.pc[p] = "read"
    /\ race' = [race EXCEPT !.pc[p] = "write",
                            !.sum[p] = PointsOf(mock_users, race.user[p]) + race.delta[p]]
    /\ UNCHANGED mock_users
    /\ RaceKeep

\* user['points'] = ...
RaceWrite(p) ==
    /\ race.pc[p] = "write"
    /\ LET i == FirstIndex(mock_users, LAMBDA u : u.id = race.user[p])
       IN mock_users' = [mock_users EXCEPT ![i].points = race.sum[p]]
    /\ race' = [race EXCEPT !.pc[p] = "rank"]
    /\ RaceKeep

\* user['rank'] = self._calculate_rank(user['points']); return True
RaceRank(p) ==
    /\ race.pc[p] = "rank"
    /\ LET i == FirstIndex(mock_users, LAMBDA u : u.id = race.user[p])
       IN mock_users' = [mock_users EXCEPT ![i].rank = calculate_rank(mock_users[i].points)]
    /\ race' = [race EXCEPT !.pc[p] = "check"]
    /\ RaceKeep

\* if success: self._check_achievements(user_id); return success
RaceCheck(p) ==
    /\ race.pc[p] = "check"
    /\ mock_users' = check_achievements(mock_users, mock_memes, race.user[p]).users
    /\ race' = [race EXCEPT !.pc[p] = "done", !.ret[p] = TRUE]
    /\ RaceKeep

NextRace ==
    \E p \in RaceProcs :
        RaceCall(p) \/ RaceRead(p) \/ RaceWrite(p) \/ RaceRank(p) \/ RaceCheck(p)

SpecRace == InitRace /\ [][NextRace]_vars

-----------------------------------------------------------------------------
(* SpecBadges: get_user_badges as a function of its arguments.  A snapshot   *)
(* is evaluated, then another one, then the first one again.                 *)

BadgePoints == {0, 50}
BadgeMemes == {0, 1, 3, 5, 10, 25, 30, 50, 100}
BadgeAdditional ==
    {NoStats}
    \cup {[total_likes |-> t] : t \in {1, 24, 25, 100, 500, 1000}}
    \cup {[comments_made |-> c] : c \in {9, 10, 50, 100}}
    \cup {[user_id |-> u] : u \in {100, 101}}
    \cup {[memes_count |-> 5]}

\* the dict get_user_statistics_summary passes on: the result of get_user_stats
StatsOf(points, memes_count) ==
    [id |-> 1, email |-> 1, points |-> points, rank |-> calculate_rank(points),
     memes_count |-> memes_count, total_likes |-> 10 * memes_count]

Evaluation(points, memes_count, additional_stats) ==
    [points |-> points, memes_count |-> memes_count, additional |-> additional_stats,
     result |-> get_user_badges(points, memes_count, additional_stats)]

InitBadges ==
    /\ mock_users = <<>>
    /\ mock_memes = <<>>
    /\ mock_comments = <<>>
    /\ mock_likes = <<>>
    /\ last = Obs("init", NoUser, 0, TRUE, NoAward)
    /\ milestone_log = [once |-> {}, again |-> {}]
    /\ calls_left = 0
    /\ race = NoRace
    /\ badge_eval = <<>>
    /\ calc = NoCalc

BadgeKeep == UNCHANGED <<mock_users, mock_memes, mock_comments, mock_likes, last,
                         milestone_log, calls_left, race, calc>>

GetUserBadges ==
    /\ Len(badge_eval) < 2
    /\ \E points \in BadgePoints, memes_count \in BadgeMemes :
          \E additional_stats \in (IF badge_eval = <<>> THEN BadgeAdditional ELSE {NoStats})
                                      \cup {StatsOf(points, memes_count)} :
              badge_eval' = Append(badge_eval,
                                   Evaluation(points, memes_count, additional_stats))
    /\ BadgeKeep

GetUserBadgesAgain ==
    /\ Len(badge_eval) = 2
    /\ badge_eval' = Append(badge_eval,
                            Evaluation(badge_eval[1].points, badge_eval[1].memes_count,
                                       badge_eval[1].additional))
    /\ BadgeKeep

NextBadges == GetUserBadges \/ GetUserBadgesAgain

SpecBadges == InitBadges /\ [][NextBadges]_vars

-----------------------------------------------------------------------------
(* SpecCalc: the pure functions of the gamification layer, applied to a      *)
(* points value (a current value, for the achievement tracks) drawn from     *)
(* CalcPoints; an evaluation is followed by one at the same value or the     *)
(* next one.                                                                 *)

MaxCalcPoints == 1100
CalcPoints == -1..MaxCalcPoints

InitCalc ==
    /\ mock_users = <<>>
    /\ mock_memes = <<>>
    /\ mock_comments = <<>>
    /\ mock_likes = <<>>
    /\ last = Obs("init", NoUser, 0, TRUE, NoAward)
    /\ milestone_log = [once |-> {}, again |-> {}]
    /\ calls_left = 0
    /\ race = NoRace
    /\ badge_eval = NoBadgeEval
    /\ \E points \in CalcPoints : calc = [op |-> "input", points |-> points, result |-> None]

CalcKeep == UNCHANGED <<mock_users, mock_memes, mock_comments, mock_likes, last,
                        milestone_log, calls_left, race, badge_eval>>

CalcInputs == {calc.points, calc.points + 1} \cap CalcPoints

GetUserRank ==
    /\ \E points \in CalcInputs :
          calc' = [op |-> "get_user_rank", points |-> points,
                   result |-> get_user_rank(points)]
    /\ CalcKeep

GetNextRankInfo ==
    /\ \E points \in CalcInputs :
          calc' = [op |-> "get_next_rank_info", points |-> points,
                   result |-> get_next_rank_info(points)]
    /\ CalcKeep

CalculateLevel ==
    /\ \E points \in CalcInputs :
          calc' = [op |-> "calculate_level", points |-> points,
                   result |-> calculate_level(points)]
    /\ CalcKeep

\* the statistics dict with and without the keys read through .get
CalcStats(current) ==
    {[memes_count |-> current, total_likes |-> current, comments_made |-> current],
     [memes_count |-> current]}

GetAchievementProgress ==
    /\ \E current \in CalcInputs : \E user_stats \in CalcStats(current) :
          calc' = [op |-> "get_achievement_progress", points |-> current,
                   result |-> get_achievement_progress(user_stats)]
    /\ CalcKeep

NextCalc == GetUserRank \/ GetNextRankInfo \/ CalculateLevel \/ GetAchievementProgress

SpecCalc == InitCalc /\ [][NextCalc]_vars

-----------------------------------------------------------------------------
(* The trending score of one item, evaluated at bounded engagements and ages *)

MaxTrendLikes == 10
MaxTrendComments == 1
MaxHalfHours == 48
HalfHour == 3600 \div 2

\* ages in seconds: one not in the past, then every half hour
TrendAges == {-1} \cup {k * HalfHour : k \in 0..MaxHalfHours}

InitTrend ==
    /\ mock_users = <<>>
    /\ mock_memes = <<>>
    /\ mock_comments = <<>>
    /\ mock_likes = <<>>
    /\ last = Obs("init", NoUser, 0, TRUE, NoAward)
    /\ milestone_log = [once |-> {}, again |-> {}]
    /\ calls_left = 0
    /\ race = NoRace
    /\ badge_eval = NoBadgeEval
    /\ \E likes \in 0..MaxTrendLikes : \E comments \in 0..MaxTrendComments :
       \E seconds \in TrendAges :
          calc = [op |-> "input", likes |-> likes, comments |-> comments,
                  seconds |-> seconds, result |-> None]

\* the score of the item of the state, now or half an hour later
CalculateTrendingScore ==
    /\ \E seconds \in {calc.seconds, calc.seconds + HalfHour} \cap TrendAges :
          /\ calc' = [op |-> "calculate_trending_score", likes |-> calc.likes,
                      comments |-> calc.comments, seconds |-> seconds,
                      result |-> calculate_trending_score(calc.likes + calc.comments,
                                                          seconds)]
    /\ CalcKeep

NextTrend == CalculateTrendingScore

SpecTrend == InitTrend /\ [][NextTrend]_vars

-----------------------------------------------------------------------------
(* SpecSort: 'Latest' and 'Most Liked' applied to bounded lists of items, and *)
(* again to the list returned; after is the list passed, as it is once the    *)
(* call has returned.                                                         *)

MaxSortLen == 3
MaxSortKey == 1

SortKeys == 0..MaxSortKey

InitSort ==
    /\ mock_users = <<>>
    /\ mock_memes = <<>>
    /\ mock_comments = <<>>
    /\ mock_likes = <<>>
    /\ last = Obs("init", NoUser, 0, TRUE, NoAward)
    /\ milestone_log = [once |-> {}, again |-> {}]
    /\ calls_left = 0
    /\ race = NoRace
    /\ badge_eval = NoBadgeEval
    /\ \E n \in 0..MaxSortLen :
       \E created \in [1..n -> SortKeys] : \E liked \in [1..n -> SortKeys] :
          calc = [op |-> "input", prev |-> "input",
                  input |-> [k \in 1..n |-> [id |-> k, created_at |-> created[k],
                                             likes_count |-> liked[k]]],
                  result |-> <<>>, after |-> <<>>]

\* the list a sort is applied to: the list drawn, or the list returned before
SortInput == IF calc.op = "input" THEN calc.input ELSE calc.result

SortByLatest ==
    /\ calc' = [op |-> "Latest", prev |-> calc.op, input |-> SortInput,
                result |-> sort_by_latest(SortInput), after |-> SortInput]
    /\ CalcKeep

SortByLikes ==
    /\ calc' = [op |-> "Most Liked", prev |-> calc.op, input |-> SortInput,
                result |-> sort_by_likes(SortInput), after |-> SortInput]
    /\ CalcKeep

NextSort == SortByLatest \/ SortByLikes

SpecSort == InitSort /\ [][NextSort]_vars

-----------------------------------------------------------------------------
(* SpecRandom: 'Random' applied to a bounded list of items, and again to the *)
(* same list.  The module-wide generator of random is not an argument of the *)
(* call: what it yields at each index is any value of its range.             *)

MaxRandomLen == 3

InitRandom ==
    /\ mock_users = <<>>
    /\ mock_memes = <<>>
    /\ mock_comments = <<>>
    /\ mock_likes = <<>>
    /\ last = Obs("init", NoUser, 0, TRUE, NoAward)
    /\ milestone_log = [once |-> {}, again |-> {}]
    /\ calls_left = 0
    /\ race = NoRace
    /\ badge_eval = NoBadgeEval
    /\ \E n \in 0..MaxRandomLen : \E created \in [1..n -> SortKeys] :
          calc = [op |-> "input", prev |-> "input",
                  input |-> [k \in 1..n |-> [id |-> k, created_at |-> created[k],
                                             likes_count |-> 0]],
                  result |-> <<>>, after |-> <<>>]

\* the values randbelow(i + 1) can yield for i = 1..n-1
Draws(n) == {draws \in [1..(n - 1) -> 0..(n - 1)] : \A i \in 1..(n - 1) : draws[i] <= i}

SortByRandom ==
    /\ \E draws \in Draws(Len(calc.input)) :
          calc' = [op |-> "Random", prev |-> calc.op, input |-> calc.input,
                   result |-> sort_by_random(calc.input, draws), after |-> calc.input]
    /\ CalcKeep

NextRandom == SortByRandom

SpecRandom == InitRandom /\ [][NextRandom]_vars

-----------------------------------------------------------------------------
(* SpecGallery: the store filled through its operations while the clock      *)
(* advances, then Gallery.get_memes in 'Trending' mode.                      *)

MaxGalleryMemes == 2
MaxGalleryLikes == 2
MaxGalleryComments == 1
MaxTicks == 2
TickSeconds == 12 * 3600

GalleryUser == 1
GalleryMemeIds == 1..MaxGalleryMemes

InitGallery ==
    /\ mock_users = <<>>
    /\ mock_memes = <<>>
    /\ mock_comments = <<>>
    /\ mock_likes = <<>>
    /\ last = Obs("init", NoUser, 0, TRUE, NoAward)
    /\ milestone_log = [once |-> {}, again |-> {}]
    /\ calls_left = 0
    /\ race = NoRace
    /\ badge_eval = NoBadgeEval
    /\ calc = [op |-> "store", now |-> 0, input |-> <<>>, result |-> <<>>, after |-> <<>>]

GalleryKeep == UNCHANGED <<last, milestone_log, calls_left, race, badge_eval>>

GalleryRegister ==
    /\ calc.op = "store"
    /\ mock_users' = register_user(mock_users, GalleryUser).users
    /\ mock_users' # mock_users
    /\ UNCHANGED <<mock_memes, mock_comments, mock_likes, calc>>
    /\ GalleryKeep

\* save_meme with created_at = datetime.now().isoformat()
GallerySaveMeme ==
    /\ calc.op = "store"
    /\ Len(mock_memes) < MaxGalleryMemes
    /\ LET s == save_meme_at(mock_users, mock_memes, GalleryUser, calc.now)
       IN mock_users' = s.users /\ mock_memes' = s.memes
    /\ UNCHANGED <<mock_comments, mock_likes, calc>>
    /\ GalleryKeep

GalleryDeleteMeme ==
    /\ calc.op = "store"
    /\ \E meme_id \in GalleryMemeIds :
          LET d == delete_meme(mock_users, mock_memes, meme_id, GalleryUser)
          IN d.ret /\ mock_users' = d.users /\ mock_memes' = d.memes
    /\ UNCHANGED <<mock_comments, mock_likes, calc>>
    /\ GalleryKeep

GalleryLikeMeme ==
    /\ calc.op = "store"
    /\ Len(mock_likes) < MaxGalleryLikes
    /\ \E meme_id \in GalleryMemeIds :
          LET l == like_meme(mock_memes, mock_likes, meme_id, GalleryUser)
          IN l.ret /\ mock_memes' = l.memes /\ mock_likes' = l.likes
    /\ UNCHANGED <<mock_users, mock_comments, calc>>
    /\ GalleryKeep

GalleryAddComment ==
    /\ calc.op = "store"
    /\ Len(mock_comments) < MaxGalleryComments
    /\ \E meme_id \in GalleryMemeIds :
          mock_comments' = gallery_add_comment(mock_comments, meme_id, GalleryUser, FALSE).comments
    /\ UNCHANGED <<mock_users, mock_memes, mock_likes, calc>>
    /\ GalleryKeep

Tick ==
    /\ calc.op = "store"
    /\ calc.now < MaxTicks * TickSeconds
    /\ calc' = [calc EXCEPT !.now = calc.now + TickSeconds]
    /\ UNCHANGED <<mock_users, mock_memes, mock_comments, mock_likes>>
    /\ GalleryKeep

\* the clock read for each item: a second may pass between two reads
Nows(n) == {[k \in 1..n |-> IF k <= late THEN calc.now ELSE calc.now + 1] : late \in 0..n}

\* Gallery.get_memes('Trending'); the loop of _sort_by_trending assigns
\* meme['trending_score'] in the items of the list it is given
GetMemesTrending ==
    /\ calc.op = "store"
    /\ LET all_memes == get_all_memes(mock_users, mock_memes)
       IN \E nows \in Nows(Len(all_memes)) :
             calc' = [calc EXCEPT !.op = "Trending", !.input = all_memes,
                         !.result = limited(sort_by_trending(mock_users, mock_memes,
                                                mock_comments, all_memes, nows),
                                            DefaultLimit),
                         !.after = scored(mock_users, mock_memes, mock_comments,
                                          all_memes, nows)]
    /\ UNCHANGED <<mock_users, mock_memes, mock_comments, mock_likes>>
    /\ GalleryKeep

NextGallery ==
    \/ GalleryRegister
    \/ GallerySaveMeme
    \/ GalleryDeleteMeme
    \/ GalleryLikeMeme
    \/ GalleryAddComment
    \/ Tick
    \/ GetMemesTrending

SpecGallery == InitGallery /\ [][NextGallery]_vars

-----------------------------------------------------------------------------
(* The statistics summary of a user who comments: the store grows by         *)
(* register_user, save_meme and Gallery.add_comment, and                     *)
(* get_user_statistics_summary is read for a registered and an unknown id.   *)

MaxSummaryComments == 10
MaxSummaryMemes == 5

InitSummary ==
    /\ mock_users = <<>>
    /\ mock_memes = <<>>
    /\ mock_comments = <<>>
    /\ mock_likes = <<>>
    /\ last = Obs("init", NoUser, 0, TRUE, NoAward)
    /\ milestone_log = [once |-> {}, again |-> {}]
    /\ calls_left = 0
    /\ race = NoRace
    /\ badge_eval = NoBadgeEval
    /\ calc = [op |-> "store", user_id |-> NoUser, result |-> None]

SummaryRegister ==
    /\ calc.op = "store"
    /\ mock_users' = register_user(mock_users, GalleryUser).users
    /\ mock_users' # mock_users
    /\ UNCHANGED <<mock_memes, mock_comments, mock_likes, calc>>
    /\ GalleryKeep

SummarySaveMeme ==
    /\ calc.op = "store"
    /\ Len(mock_memes) < MaxSummaryMemes
    /\ LET s == save_meme(mock_users, mock_memes, GalleryUser)
       IN mock_users' = s.users /\ mock_memes' = s.memes
    /\ UNCHANGED <<mock_comments, mock_likes, calc>>
    /\ GalleryKeep

\* show_comment_section posts for the logged-in user only
SummaryAddComment ==
    /\ calc.op = "store"
    /\ get_user_by_id(mock_users, GalleryUser) # None
    /\ Len(mock_comments) < MaxSummaryComments
    /\ LET c == gallery_add_comment(mock_comments, 1, GalleryUser, FALSE)
       IN c.ret /\ mock_comments' = c.comments
    /\ UNCHANGED <<mock_users, mock_memes, mock_likes, calc>>
    /\ GalleryKeep

GetUserStatisticsSummary ==
    /\ calc.op = "store"
    /\ \E user_id \in {GalleryUser, GalleryUser + 1} :
          calc' = [op |-> "get_user_statistics_summary", user_id |-> user_id,
                   result |-> get_user_statistics_summary(mock_users, mock_memes, user_id)]
    /\ UNCHANGED <<mock_users, mock_memes, mock_comments, mock_likes>>
    /\ GalleryKeep

NextSummary ==
    \/ SummaryRegister
    \/ SummarySaveMeme
    \/ SummaryAddComment
    \/ GetUserStatisticsSummary

SpecSummary == InitSummary /\ [][NextSummary]_vars

-----------------------------------------------------------------------------
(* The stored rank: register_user and update_user_points with amounts that   *)
(* are not negative, for the registered user and for an unknown id.          *)

MaxRankPoints == 1001

\* one point, and the thresholds of the tiers
RankAmounts == {1} \cup {rank_thresholds[i].threshold : i \in 1..Len(rank_thresholds)}

InitRank ==
    /\ mock_users = <<>>
    /\ mock_memes = <<>>
    /\ mock_comments = <<>>
    /\ mock_likes = <<>>
    /\ last = Obs("init", NoUser, 0, TRUE, NoAward)
    /\ milestone_log = [once |-> {}, again |-> {}]
    /\ calls_left = 0
    /\ race = NoRace
    /\ badge_eval = NoBadgeEval
    /\ calc = [op |-> "store", user_id |-> NoUser, points |-> 0, ret |-> TRUE]

RankRegister ==
    /\ mock_users' = register_user(mock_users, GalleryUser).users
    /\ mock_users' # mock_users
    /\ calc' = [op |-> "register_user", user_id |-> GalleryUser, points |-> 0, ret |-> TRUE]
    /\ UNCHANGED <<mock_memes, mock_comments, mock_likes>>
    /\ GalleryKeep

UpdateUserPoints ==
    /\ \E user_id \in {GalleryUser, GalleryUser + 1}, points \in RankAmounts :
          LET u == update_user_points(mock_users, user_id, points)
          IN /\ \A i \in 1..Len(u.users) : u.users[i].points <= MaxRankPoints
             /\ mock_users' = u.users
             /\ calc' = [op |-> "update_user_points", user_id |-> user_id,
                         points |-> points, ret |-> u.ret]
    /\ UNCHANGED <<mock_memes, mock_comments, mock_likes>>
    /\ GalleryKeep

NextRank ==
    \/ RankRegister
    \/ UpdateUserPoints

SpecRank == InitRank /\ [][NextRank]_vars

-----------------------------------------------------------------------------
(* Claims *)

MilestoneCounts == {5, 10, 25, 50, 100}

\* the bonus update_user_points calls of an award_points call (all but the base call)
BonusCalls(obs) == IF obs.calls = <<>> THEN <<>> ELSE Tail(obs.calls)

\* C1: the bonus of a milestone is added to a user's points at most once, whatever
\* operations are made; an award for an unrelated action made while memes_count
\* still equals the milestone does not add it again.
C1_BonusAtMostOnce == milestone_log.again = {}

\* C2: after a successful base award a milestone bonus is applied iff the user's
\* memes_count is exactly 5, 10, 25, 50 or 100, with bonus 25, 50, 75, 100, 200; at
\* most one bonus per call; a bonus is first paid only by an award that sees exactly
\* its count, so a count that goes from 4 to 6 unobserved never gets the 5 bonus.
C2_Bonus(count) ==
    CASE count = 5 -> 25 [] count = 10 -> 50 [] count = 25 -> 75
      [] count = 50 -> 100 [] count = 100 -> 200 [] OTHER -> 0

C2_State ==
    (last.award.called /\ last.award.ret) =>
        LET count == CountMemes(mock_memes, last.award.user)
            bonus == BonusCalls(last.award)
        IN /\ Len(bonus) <= 1
           /\ (Len(bonus) = 1) <=> (count \in MilestoneCounts)
           /\ Len(bonus) = 1 =>
                 /\ bonus[1].delta = C2_Bonus(count)
                 /\ bonus[1].milestone = count
                 /\ bonus[1].ok

C2_Step ==
    /\ (last'.award.called /\ last'.award.ret) =>
          PointsOf(mock_users', last'.award.user) =
              PointsOf(mock_users, last'.award.user) + last'.award.calls[1].delta
              + C2_Bonus(CountMemes(mock_memes', last'.award.user))
    /\ \A pair \in milestone_log'.once \ milestone_log.once :
          /\ last'.award.called /\ last'.award.ret /\ last'.award.user = pair[1]
          /\ CountMemes(mock_memes', pair[1]) = pair[2]

C2_ExactMilestone == []C2_State /\ [][C2_Step]_vars

\* an award seen at 6 memes by a user who was never paid the 5-meme bonus
C2_Witness ==
    /\ last.award.called /\ last.award.ret
    /\ CountMemes(mock_memes, last.award.user) = 6
    /\ <<last.award.user, 5>> \notin milestone_log.once
    /\ BonusCalls(last.award) = <<>>

\* C3: award_points with a kind that is not in the point rule table returns False,
\* issues no update_user_points call and leaves every table of the store unchanged.
C3_State ==
    (last.award.called /\ last.award.kind \notin DOMAIN point_system) =>
        /\ ~last.ret
        /\ ~last.award.ret
        /\ last.award.calls = <<>>
        /\ ~last.award.checked

C3_Step ==
    (last'.award.called /\ last'.award.kind \notin DOMAIN point_system) =>
        UNCHANGED store

C3_UnknownKind == []C3_State /\ [][C3_Step]_vars

\* an unknown kind awarded to a registered user while some user holds points
C3_Witness ==
    /\ last.award.called
    /\ last.award.kind = "nonexistent_kind"
    /\ Registered(last.award.user)
    /\ \E i \in 1..Len(mock_users) : mock_users[i].points > 0

\* C4: when the base update_user_points call fails, award_points returns False, does
\* not run _check_achievements, issues no bonus call and changes no user's points.
BaseFailed(obs) == obs.called /\ obs.calls # <<>> /\ ~obs.calls[1].ok

C4_State ==
    BaseFailed(last.award) =>
        /\ ~last.award.ret
        /\ ~last.award.checked
        /\ Len(last.award.calls) = 1

C4_Step == BaseFailed(last'.award) => UNCHANGED store

C4_BaseFailure == []C4_State /\ [][C4_Step]_vars

\* an award to an id that is not registered while a registered user holds points
C4_Witness ==
    /\ BaseFailed(last.award)
    /\ ~Registered(last.award.user)
    /\ \E i \in 1..Len(mock_users) : mock_users[i].points > 0

\* C5: for a known kind and a multiplier m >= 0 the base update_user_points call has
\* delta floor(baseAward(kind) * m), baseAward(kind) for the default 1.0, and on
\* success the user's points grow by that delta plus the milestone bonus, if any.
C5_State ==
    (last.award.called /\ last.award.kind \in DOMAIN point_system /\ last.award.mult >= 0) =>
        /\ last.award.calls # <<>>
        /\ last.award.calls[1].milestone = 0
        /\ last.award.calls[1].delta =
              (point_system[last.award.kind] * last.award.mult) \div Hundred
        /\ last.award.mult = DefaultMultiplier =>
              last.award.calls[1].delta = point_system[last.award.kind]

C5_Step ==
    (last'.award.called /\ last'.award.ret /\ last'.award.mult >= 0) =>
        PointsOf(mock_users', last'.award.user) =
            PointsOf(mock_users, last'.award.user)
            + (point_system[last'.award.kind] * last'.award.mult) \div Hundred
            + C2_Bonus(CountMemes(mock_memes', last'.award.user))

C5_BaseDelta == []C5_State /\ [][C5_Step]_vars

\* C6: no operation lowers the points of an existing user (awards with a multiplier
\* >= 0); deleting a meme lowers memes_count, never points.
C6_Step ==
    /\ Len(mock_users') >= Len(mock_users)
    /\ \A i \in 1..Len(mock_users) :
          /\ mock_users'[i].id = mock_users[i].id
          /\ mock_users'[i].points >= mock_users[i].points

C6_PointsNeverDecrease == [][C6_Step]_vars

\* a user who was awarded for a meme and deleted it keeps the points
C6_Witness ==
    /\ last.op = "delete_meme" /\ last.ret
    /\ Registered(last.user)
    /\ CountMemes(mock_memes, last.user) = 0
    /\ PointsOf(mock_users, last.user) >= 10

\* C8: concurrent update_user_points calls for one user are atomic increments: when
\* two awards interleave in any order, each user's final points are the initial
\* points (0) plus the deltas of all successful awards to that user.
RaceAwarded(user_id, p) ==
    IF race.ret[p] /\ race.user[p] = user_id THEN race.delta[p] ELSE 0

C8_NoLostUpdate ==
    (\A p \in RaceProcs : race.pc[p] = "done") =>
        \A i \in 1..Len(mock_users) :
            mock_users[i].points =
                RaceAwarded(mock_users[i].id, 1) + RaceAwarded(mock_users[i].id, 2)

\* C9: badges are a projection of the current statistics: a user holding 'Getting
\* Started' who deletes a meme and drops below 5 memes no longer has the badge in the
\* set recomputed from the store, and has it again once the count is back at 5.
HasGettingStarted(users, memes, user_id) ==
    LET shown == profile_badges(users, memes, user_id)
    IN \E i \in 1..Len(shown) : shown[i][2] = "Getting Started"

C9_State ==
    \A i \in 1..Len(mock_users) :
        HasGettingStarted(mock_users, mock_memes, mock_users[i].id)
            <=> CountMemes(mock_memes, mock_users[i].id) >= 5

C9_Step ==
    \A i \in 1..Len(mock_users) :
        LET u == mock_users[i].id
            before == CountMemes(mock_memes, u)
            after == CountMemes(mock_memes', u)
        IN /\ (before >= 5 /\ after < 5) =>
                 /\ HasGettingStarted(mock_users, mock_memes, u)
                 /\ ~HasGettingStarted(mock_users', mock_memes', u)
           /\ (before < 5 /\ after >= 5) =>
                 /\ ~HasGettingStarted(mock_users, mock_memes, u)
                 /\ HasGettingStarted(mock_users', mock_memes', u)

C9_BadgeProjection == []C9_State /\ [][C9_Step]_vars

\* a user who was paid the 5-meme bonus has deleted a meme, owns 4, and has no badge
C9_Witness ==
    /\ last.op = "delete_meme" /\ last.ret
    /\ CountMemes(mock_memes, last.user) = 4
    /\ <<last.user, 5>> \in milestone_log.once
    /\ ~HasGettingStarted(mock_users, mock_memes, last.user)

\* C10: get_user_badges returns exactly the badges whose predicate is true on the
\* supplied statistics, in the declaration order of the badge table and without
\* duplicates, and evaluating a snapshot again after another one gives the same list.
Supplied(e, key, default) ==
    IF key \in DOMAIN e.additional THEN e.additional[key]
    ELSE IF key = "points" THEN e.points
    ELSE IF key = "memes_count" THEN e.memes_count
    ELSE default

BadgeDue(name, e) ==
    LET memes == Supplied(e, "memes_count", 0)
        likes == Supplied(e, "total_likes", 0)
        comments == Supplied(e, "comments_made", 0)
    IN CASE name = "First Steps" -> memes >= 1
         [] name = "Getting Started" -> memes >= 5
         [] name = "Meme Machine" -> memes >= 25
         [] name = "Prolific Creator" -> memes >= 50
         [] name = "Meme Master" -> memes >= 100
         [] name = "First Fan" -> likes >= 1
         [] name = "Rising Star" -> likes >= 25
         [] name = "Popular" -> likes >= 100
         [] name = "Viral Sensation" -> likes >= 500
         [] name = "Internet Famous" -> likes >= 1000
         [] name = "Commentator" -> comments >= 10
         [] name = "Social Butterfly" -> comments >= 50
         [] name = "Community Helper" -> comments >= 100
         [] name = "Early Bird" -> Supplied(e, "points", 0) >= 50
         [] name = "Night Owl" -> memes >= 5
         [] name = "Weekend Warrior" -> memes >= 3
         [] name = "Trendsetter" -> Supplied(e, "user_id", 999) <= 100
         [] name = "Quality Creator" -> memes > 0 /\ likes >= 10 * memes
         [] name = "Consistent Creator" -> memes >= 30
         [] name = "Meme Archaeologist" -> memes >= 10

Declared(label) ==
    IF \E i \in 1..Len(badges) : <<badges[i].emoji, badges[i].name>> = label
    THEN CHOOSE i \in 1..Len(badges) : <<badges[i].emoji, badges[i].name>> = label
    ELSE 0

C10_Exact(e) ==
    /\ \A j \in 1..Len(e.result) : Declared(e.result[j]) # 0
    /\ \A i \in 1..Len(badges) :
          (\E j \in 1..Len(e.result) : e.result[j] = <<badges[i].emoji, badges[i].name>>)
              <=> BadgeDue(badges[i].name, e)
    /\ \A j \in 1..Len(e.result) : \A k \in 1..Len(e.result) :
          j < k => Declared(e.result[j]) < Declared(e.result[k])

TierThreshold(name) ==
    CASE name = "Newbie" -> 0
      [] name = "Rookie Memer" -> 50
      [] name = "Meme Enthusiast" -> 200
      [] name = "Pro Memer" -> 500
      [] name = "Meme Legend" -> 1000

TierNames == {"Newbie", "Rookie Memer", "Meme Enthusiast", "Pro Memer", "Meme Legend"}

C11_State ==
    (calc.op = "get_user_rank" /\ calc.points >= 0) =>
        /\ calc.result \in TierNames
        /\ TierThreshold(calc.result) <= calc.points
        /\ \A t \in TierNames :
              TierThreshold(t) <= calc.points => TierThreshold(t) <= TierThreshold(calc.result)

C11_Step ==
    (/\ calc.op = "get_user_rank" /\ calc'.op = "get_user_rank"
     /\ 0 <= calc.points /\ calc.points <= calc'.points) =>
        TierThreshold(calc.result) <= TierThreshold(calc'.result)

C11_RankOf == []C11_State /\ [][C11_Step]_vars

\* points exactly at a threshold, evaluated after the value below it
C11_Witness ==
    /\ calc.op = "get_user_rank"
    /\ calc.points = 500
    /\ calc.result = "Pro Memer"

\* C12: when a higher tier exists, get_next_rank_info returns the tier right above the
\* current one, with points_needed = next_min - points >= 1 and
\* current_min <= points < next_min.
C12_NextRank ==
    (calc.op = "get_next_rank_info" /\ calc.points >= 0 /\ calc.result # None) =>
        LET r == calc.result
        IN /\ r.current_rank \in TierNames /\ r.next_rank \in TierNames
           /\ r.current_min = TierThreshold(r.current_rank)
           /\ r.next_min = TierThreshold(r.next_rank)
           /\ r.next_min > r.current_min
           /\ \A t \in TierNames :
                 TierThreshold(t) > r.current_min => TierThreshold(t) >= r.next_min
           /\ r.points_needed = r.next_min - calc.points
           /\ r.points_needed >= 1
           /\ r.current_min <= calc.points /\ calc.points < r.next_min
           /\ r.next_threshold = r.next_min
           /\ r.current_points = calc.points

\* one point below a threshold
C12_Witness ==
    /\ calc.op = "get_next_rank_info"
    /\ calc.points = 199
    /\ calc.result # None
    /\ calc.result.next_rank = "Meme Enthusiast"
    /\ calc.result.points_needed = 1

\* C13: get_next_rank_info returns None exactly when points >= 1000; for every points
\* in 0..999 it returns a next tier.
C13_TopTier ==
    (calc.op = "get_next_rank_info" /\ calc.points >= 0) =>
        (calc.result = None <=> calc.points >= 1000)

\* exactly at the top threshold
C13_Witness ==
    /\ calc.op = "get_next_rank_info"
    /\ calc.points = 1000
    /\ calc.result = None

\* C14: for points >= 0 calculate_level returns level = points div 100 + 1,
\* points_in_level = points mod 100, points_to_next = 100 - points_in_level and
\* progress_percentage = points_in_level, in 0..99.
C14_Level ==
    (calc.op = "calculate_level" /\ calc.points >= 0) =>
        LET r == calc.result
        IN /\ r.level = calc.points \div 100 + 1
           /\ r.points_in_level = calc.points % 100
           /\ r.points_in_level \in 0..99
           /\ r.points_to_next = 100 - r.points_in_level
           /\ float_equal(r.progress_percentage, float_of_int(r.points_in_level))

\* the achievement tracks: milestones and rewards by name
TrackMilestones(name) ==
    CASE name = "Meme Creator" -> <<1, 5, 10, 25, 50, 100>>
      [] name = "Popular Creator" -> <<1, 10, 50, 100, 500, 1000>>
      [] name = "Community Member" -> <<1, 5, 10, 25, 50, 100>>

TrackRewards(name) ==
    CASE name = "Meme Creator" -> <<10, 25, 50, 75, 100, 200>>
      [] name = "Popular Creator" -> <<5, 15, 30, 50, 100, 200>>
      [] name = "Community Member" -> <<2, 10, 15, 25, 50, 75>>

TrackLast(name) == TrackMilestones(name)[Len(TrackMilestones(name))]

\* C15: on each track, for a current value >= 0 below the last milestone,
\* next_milestone is the first milestone strictly greater than the value, next_reward
\* the reward at that index, and progress = 100 * (current - prev) / (milestone - prev),
\* prev being the milestone before it, or 0.
C15_Track(a) ==
    LET ms == TrackMilestones(a.name)
        i == CHOOSE j \in 1..Len(ms) :
                 /\ a.current < ms[j]
                 /\ \A k \in 1..(j - 1) : ms[k] <= a.current
        prev == IF i = 1 THEN 0 ELSE ms[i - 1]
    IN /\ a.next_milestone = ms[i]
       /\ a.next_reward = TrackRewards(a.name)[i]
       /\ ~a.progress_percentage.neg
       /\ float_equal(a.progress_percentage,
                      float_div(100 * (a.current - prev), ms[i] - prev))

C15_Progress ==
    calc.op = "get_achievement_progress" =>
        \A n \in 1..Len(calc.result) :
            LET a == calc.result[n]
            IN (0 <= a.current /\ a.current < TrackLast(a.name)) => C15_Track(a)

\* C16: at or above the last milestone of a track get_achievement_progress returns the
\* last milestone and reward with progress 100, and for every current value >= 0 the
\* progress_percentage is within [0, 100].
C16_Complete ==
    calc.op = "get_achievement_progress" =>
        \A n \in 1..Len(calc.result) :
            LET a == calc.result[n]
            IN /\ a.current >= TrackLast(a.name) =>
                    /\ a.next_milestone = TrackLast(a.name)
                    /\ a.next_reward = TrackRewards(a.name)[Len(TrackRewards(a.name))]
                    /\ float_equal(a.progress_percentage, float_of_int(100))
               /\ a.current >= 0 =>
                    /\ ~a.progress_percentage.neg
                    /\ ~float_less(float_of_int(100), a.progress_percentage)

\* past the last milestone of two tracks, inside the third
C16_Witness ==
    /\ calc.op = "get_achievement_progress"
    /\ calc.points = 100
    /\ Len(calc.result) = 3
    /\ calc.result[1].next_milestone = 100 /\ calc.result[1].next_reward = 200
    /\ calc.result[2].current = 100 /\ calc.result[2].next_milestone = 500

\* the double nearest to e * 10 / (1 + a/24) for the double a > 0
C17_Exact(e, a) ==
    LET m == float_aligned(float_of_int(24), a)
    IN float_divide(float_of_int(e * 240),
                    [mant |-> BigAdd(m.a, m.b), exp |-> Min({0, a.exp})])

C17_State ==
    calc.op = "calculate_trending_score" =>
        LET e == calc.likes + calc.comments
        IN /\ calc.seconds <= 0 => float_equal(calc.result, float_of_int(e * 10))
           /\ calc.seconds > 0 =>
                 /\ float_equal(calc.result, C17_Exact(e, age_hours_of(calc.seconds)))
                 /\ e > 0 => calc.result.mant # <<>>

C17_Step ==
    /\ calc.op = "calculate_trending_score"
    /\ calc'.op = "calculate_trending_score"
    /\ calc.likes + calc.comments > 0
    /\ 0 < calc.seconds
    /\ calc.seconds < calc'.seconds
    => float_less(calc'.result, calc.result)

\* C17: the score is e * 10 at an age <= 0 and e * 10 / (1 + a/24) at an age
\* a > 0 (so 0 for no engagement, 100 and 50 for engagement 10 at ages 0 and 24);
\* for e > 0 it is positive and strictly smaller at a later age
C17_TrendingScore == []C17_State /\ [][C17_Step]_vars

C18_Key(meme) == IF calc.op = "Latest" THEN meme.created_at ELSE meme.likes_count

\* C18: the list returned by 'Latest' and by 'Most Liked' is a permutation of
\* the input, in descending order of the key, where items of equal keys keep
\* the order they had in the input
C18_StableDescending ==
    calc.op \in {"Latest", "Most Liked"} =>
        LET n == Len(calc.input)
        IN /\ Len(calc.result) = n
           /\ \E p \in [1..n -> 1..n] :
                 /\ \A i, j \in 1..n : p[i] = p[j] => i = j
                 /\ \A k \in 1..n : calc.result[k] = calc.input[p[k]]
                 /\ \A i, j \in 1..n :
                       i < j => \/ C18_Key(calc.result[i]) > C18_Key(calc.result[j])
                                \/ /\ C18_Key(calc.result[i]) = C18_Key(calc.result[j])
                                   /\ p[i] < p[j]

\* a list of three items where a later item has the greatest key and the two
\* others, of equal keys, follow it in their input order
C18_Witness ==
    /\ calc.op \in {"Latest", "Most Liked"}
    /\ Len(calc.input) = 3
    /\ C18_Key(calc.input[1]) = C18_Key(calc.input[2])
    /\ C18_Key(calc.input[3]) > C18_Key(calc.input[1])
    /\ calc.result = <<calc.input[3], calc.input[1], calc.input[2]>>

\* C19: 'Latest' applied to a list returned by 'Latest' returns the same list,
\* element by element
C19_Idempotent ==
    calc.op = "Latest" /\ calc.prev = "Latest" => calc.result = calc.input

\* 'Latest' applied twice to a list with two equal created_at values that the
\* first application had to reorder
C19_Witness ==
    /\ calc.op = "Latest"
    /\ calc.prev = "Latest"
    /\ Len(calc.input) = 3
    /\ calc.input[1].created_at > calc.input[2].created_at
    /\ calc.input[2].created_at = calc.input[3].created_at
    /\ calc.input[1].id = 3
    /\ calc.result = calc.input

\* the score due to an item scored at the instant now: from its own likes_count,
\* the comments stored for its id and its own created_at
C20_Score(meme, now) ==
    calculate_trending_score(
        meme.likes_count + Len(SelectSeq(mock_comments, LAMBDA c : c.meme_id = meme.id)),
        now - meme.created_at)

C20_Found(meme) ==
    \E k \in 1..Len(mock_memes) :
        mock_memes[k].id = meme.id /\ Registered(mock_memes[k].user_id)

C20_Scored(meme) ==
    IF C20_Found(meme)
    THEN \E now \in {calc.now, calc.now + 1} :
            float_equal(meme.trending_score, C20_Score(meme, now))
    ELSE meme.trending_score.mant = <<>>

\* C20: in 'Trending' mode every item carries the score of its own likes_count,
\* of the comments stored for its id and of its age (0 when its id is not in
\* the store), and the list returned is a permutation of the input in
\* descending order of that score, items of equal scores in input order
C20_Trending ==
    calc.op = "Trending" =>
        LET n == Len(calc.input)
        IN /\ Len(calc.result) = n
           /\ \A k \in 1..n : C20_Scored(calc.result[k])
           /\ \E p \in [1..n -> 1..n] :
                 /\ \A i, j \in 1..n : p[i] = p[j] => i = j
                 /\ \A k \in 1..n :
                       /\ calc.result[k].id = calc.input[p[k]].id
                       /\ calc.result[k].user_id = calc.input[p[k]].user_id
                       /\ calc.result[k].likes_count = calc.input[p[k]].likes_count
                       /\ calc.result[k].created_at = calc.input[p[k]].created_at
                 /\ \A i, j \in 1..n :
                       i < j => \/ float_less(calc.result[j].trending_score,
                                              calc.result[i].trending_score)
                                \/ /\ float_equal(calc.result[i].trending_score,
                                                  calc.result[j].trending_score)
                                   /\ p[i] < p[j]

\* C21: in every mode the list passed holds, after the call, the same items in
\* the same order, each with the same fields and values as before
C21_InputKept ==
    calc.op \in {"Latest", "Most Liked", "Trending", "Random"} => calc.after = calc.input

C22_Permutation ==
    calc.op = "Random" =>
        LET n == Len(calc.input)
        IN /\ Len(calc.result) = n
           /\ \E p \in [1..n -> 1..n] :
                 /\ \A i, j \in 1..n : p[i] = p[j] => i = j
                 /\ \A k \in 1..n : calc.result[k] = calc.input[p[k]]

C22_Step ==
    calc.op = "Random" /\ calc'.op = "Random" /\ calc'.input = calc.input
    => calc'.result = calc.result

\* C22: 'Random' returns a permutation of its input, and two calls given the
\* same input (the caller supplies nothing else) return the same ordering
C22_Deterministic == []C22_Permutation /\ [][C22_Step]_vars

C23_MalformedStats == [error |-> "MalformedStats"]

\* the error value in the shape of each function's result: the rank is a
\* string, the next-rank info and the level are dicts, the progress is a list
C23_IsError(op, result) ==
    IF op = "get_user_rank" THEN result = C23_MalformedStats.error
    ELSE IF op = "get_achievement_progress" THEN result = <<C23_MalformedStats>>
    ELSE result = C23_MalformedStats

\* C23: rank, next-rank info, level and achievement progress computed from a
\* negative statistic give the MalformedStats error value, never an ordinary
\* result
C23_Refused ==
    /\ calc.op \in {"get_user_rank", "get_next_rank_info", "calculate_level",
                    "get_achievement_progress"}
    /\ calc.points < 0
    => C23_IsError(calc.op, calc.result)

C24_Earned(e, name) == \E j \in 1..Len(e.result) : e.result[j][2] = name

C24_Absent(e) ==
    /\ "user_id" \notin DOMAIN e.additional => ~C24_Earned(e, "Trendsetter")
    /\ "total_likes" \notin DOMAIN e.additional => ~C24_Earned(e, "Quality Creator")
    /\ ~check_special_requirement("no_such_requirement",
                                  merge_stats(e.points, e.memes_count, e.additional))

\* C24: a string-keyed badge whose proxy field (user_id, total_likes) is not
\* among the statistics given to get_user_badges is not earned, the call
\* returning its list all the same, and an unknown identifier is not met
C24_AbsentProxy == \A n \in 1..Len(badge_eval) : C24_Absent(badge_eval[n])

\* no additional statistics at 5 memes: the string-keyed badges on memes_count
\* are earned, those on user_id and total_likes are not
C24_Witness ==
    /\ Len(badge_eval) >= 1
    /\ badge_eval[1].additional = NoStats
    /\ badge_eval[1].memes_count = 5
    /\ C24_Earned(badge_eval[1], "Night Owl")
    /\ ~C24_Earned(badge_eval[1], "Trendsetter")
    /\ ~C24_Earned(badge_eval[1], "Quality Creator")

\* C25: the comment badges follow the comments the user has made: when the
\* user of a statistics summary has added at least 10 comments, the badges of
\* the summary include 'Commentator' (50: 'Social Butterfly', 100: 'Community
\* Helper')
C25_Made(user_id) ==
    Len(SelectSeq(mock_comments, LAMBDA c : c.user_id = user_id))

C25_Has(result, name) ==
    \E n \in 1..Len(result.badges) : result.badges[n][2] = name

C25_CommentBadges ==
    (calc.op = "get_user_statistics_summary" /\ calc.result # None) =>
        /\ C25_Made(calc.user_id) >= 10 => C25_Has(calc.result, "Commentator")
        /\ C25_Made(calc.user_id) >= 50 => C25_Has(calc.result, "Social Butterfly")
        /\ C25_Made(calc.user_id) >= 100 => C25_Has(calc.result, "Community Helper")

\* C26: in every state reached by register_user and by update_user_points
\* with amounts that are not negative, the rank stored with each user is the
\* rank get_user_rank gives for the points stored with that user
C26_RankAgrees ==
    \A i \in 1..Len(mock_users) :
        mock_users[i].rank = get_user_rank(mock_users[i].points)

\* a successful update has brought a user exactly onto the second threshold
C26_Witness ==
    /\ calc.op = "update_user_points" /\ calc.ret
    /\ \E i \in 1..Len(mock_users) :
          /\ mock_users[i].id = calc.user_id
          /\ mock_users[i].points = 50
          /\ mock_users[i].rank = "Rookie Memer"

\* C27: in every state reached by save_meme and delete_meme, no two stored
\* memes have the same id
C27_UniqueIds ==
    \A i, j \in 1..Len(mock_memes) :
        i # j => mock_memes[i].id # mock_memes[j].id

\* C28: likes are counted once per user and meme: the likes_count of every
\* stored meme is the number of like records on its id, no two like records
\* share user and meme, a repeated like returns False and changes nothing,
\* and a meme just saved has likes_count 0 and can be liked by every user
C28_Likes(likes, meme_id) ==
    Cardinality({k \in 1..Len(likes) : likes[k].meme_id = meme_id})

C28_State ==
    /\ \A i \in 1..Len(mock_memes) :
          mock_memes[i].likes_count = C28_Likes(mock_likes, mock_memes[i].id)
    /\ \A k, n \in 1..Len(mock_likes) :
          (mock_likes[k].meme_id = mock_likes[n].meme_id
             /\ mock_likes[k].user_id = mock_likes[n].user_id) => k = n

C28_Step ==
    /\ (last'.op = "like_meme"
          /\ \E k \in 1..Len(mock_likes) :
                mock_likes[k].meme_id = last'.meme /\ mock_likes[k].user_id = last'.user)
       => (~last'.ret /\ UNCHANGED <<mock_users, mock_memes, mock_likes, mock_comments>>)
    /\ last'.op = "save_meme"
       => LET meme == mock_memes'[Len(mock_memes')]
          IN /\ meme.likes_count = 0
             /\ \A user_id \in UserIds :
                   like_meme(mock_memes', mock_likes', meme.id, user_id).ret

C28_CountedOnce == []C28_State /\ [][C28_Step]_vars

\* C29: in every state reached by register_user, save_meme and delete_meme,
\* the memes_count stored with each user is the number of stored memes the
\* user owns, and it is never negative
C29_MemesCount ==
    \A i \in 1..Len(mock_users) :
        /\ mock_users[i].memes_count = CountMemes(mock_memes, mock_users[i].id)
        /\ mock_users[i].memes_count >= 0

\* C30: delete_meme(meme_id, user_id) returns False and leaves the four
\* tables as they were when no stored meme has that id and that owner; a
\* successful delete removes exactly one meme, which user_id owns
C30_Owned(meme_id, user_id) ==
    \E i \in 1..Len(mock_memes) :
        mock_memes[i].id = meme_id /\ mock_memes[i].user_id = user_id

C30_Step ==
    last'.op = "delete_meme" =>
        /\ ~C30_Owned(last'.meme, last'.user) =>
              /\ ~last'.ret
              /\ UNCHANGED <<mock_users, mock_memes, mock_likes, mock_comments>>
        /\ last'.ret =>
              /\ \E i \in 1..Len(mock_memes) :
                    /\ mock_memes[i].id = last'.meme
                    /\ mock_memes[i].user_id = last'.user
                    /\ mock_memes' = RemoveAt(mock_memes, i)
              /\ UNCHANGED <<mock_likes, mock_comments>>

C30_OwnerOnly == [][C30_Step]_vars

\* a delete by a user who is not the owner of the stored meme was refused
C30_Witness ==
    /\ last.op = "delete_meme" /\ ~last.ret
    /\ \E i \in 1..Len(mock_memes) :
          mock_memes[i].id = last.meme /\ mock_memes[i].user_id # last.user

====
